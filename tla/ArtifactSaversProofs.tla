-------------------------- MODULE ArtifactSaversProofs --------------------------
(***************************************************************************)
(* Theorems about ArtifactSavers, for every set of savers and artifacts,   *)
(* each class of savers, and every number of runs and messages.            *)
(***************************************************************************)
EXTENDS ArtifactSavers, MailboxLemmas

-----------------------------------------------------------------------------
(* The inductive invariant                                                  *)

Waiting(s) == In(mailbox[s])
Working(s) == IF work[s] = Idle THEN {} ELSE {work[s].message}

\* A request to store run p of artifact a is made once, after that run, and is
\* the last thing made of it until the next run.
Apart == {q \in Message \X Message : q[1].op = "SaveToRemote" => q[1] # q[2]}

Requests ==
    /\ \A a \in Artifact : saved[a] <= run[a] /\ (a \in writing => saved[a] < run[a])
    /\ \A s \in Saver : \A m \in Waiting(s) \union Working(s) :
          /\ m.op = "SaveToRemote" => m.protocol <= saved[m.artifact]
          /\ m.op = "SaveToLocal" => m.artifact \in ArtifactsToLoad[s]

Once ==
    /\ \A s \in Saver : Chain(mailbox[s], Apart)
    /\ \A s, t \in Saver : \A m \in Waiting(s) :
          m.op = "SaveToRemote" => m \notin Working(t) /\ (s # t => m \notin Waiting(t))
    /\ \A s, t \in Saver : \A m \in Working(s) :
          m.op = "SaveToRemote" /\ s # t => m \notin Working(t)

\* The remote file that m asks for is not there yet.
Absent(m) == file[RemotePath(m)] \in {NoFile, Torn}

\* It is not there before the request that makes it has been carried out.
Unsaved ==
    /\ \A a \in Artifact : \A p \in Protocol :
          p > saved[a] => file[<<p, a>>] \in {NoFile, Torn}
    /\ \A s \in Saver : \A m \in Waiting(s) : m.op = "SaveToRemote" => Absent(m)
    /\ \A s \in Saver : work[s] # Idle =>
          (work[s].message.op = "SaveToRemote" /\ work[s].at # "copied"
              => Absent(work[s].message))

\* The local file of an artifact that only its engine has touched.
OwnFiles == \A a \in own \ writing : file[<<Local, a>>] = run[a]

\* Nobody but its engine has touched the output that saver s is storing.
Genuine(s) ==
    /\ work[s].message.op = "SaveToRemote"
    /\ work[s].message.artifact \in own \ writing
    /\ work[s].message.protocol = run[work[s].message.artifact]

Storing(s) == work[s] # Idle =>
    (Genuine(s) =>
        /\ work[s].at = "copying" => work[s].read = work[s].message.protocol
        /\ work[s].at = "copied" =>
              file[RemotePath(work[s].message)] = work[s].message.protocol)

\* The file that saver s fetches was in the store when it began.
Fetching(s) == work[s] # Idle =>
    (work[s].message.op = "SaveToLocal" /\ work[s].stored =>
        LET m == work[s].message IN
        /\ file[RemotePath(m)] = m.protocol
        /\ work[s].at = "copying" => work[s].read = m.protocol
        /\ work[s].at = "copied" /\ work[s].undisturbed =>
              file[LocalPath(m)] = m.protocol)

\* Nobody else has been at work since saver s began.
Alone(s) == work[s] # Idle =>
    (work[s].alone =>
        /\ work[s].open /\ \A t \in Saver : t # s => work[t] = Idle
        /\ work[s].undisturbed =>
              LET m == work[s].message IN
              /\ work[s].at \in {"copy", "create"} => file[Origin(m)] # NoFile
              /\ work[s].at = "create" => file[Destination(m)] = NoFile)

\* A checksum file was made when the artifact was copied to the local disk.
Checksums == \A a \in Artifact :
    crc[a] # "none" => \E s \in Saver : a \in ArtifactsToLoad[s]

Properties == StoresOwnOutput /\ CopiesWhatWasNamed /\ AloneNeverFails

IInv == /\ TypeOK /\ Requests /\ Once /\ Unsaved /\ OwnFiles /\ Checksums
        /\ \A s \in Saver : Storing(s) /\ Fetching(s) /\ Alone(s)
        /\ Properties

-----------------------------------------------------------------------------
USE DEF disk, engine, client

\* Local and remote files are apart.
LEMMA Places ==
    /\ Protocol \subseteq Nat /\ Local \notin Protocol
    /\ NoFile \notin Protocol /\ Torn \notin Protocol
    /\ \A m \in Message :
          /\ LocalPath(m) = <<Local, m.artifact>> /\ LocalPath(m) \in Place
          /\ RemotePath(m) = <<m.protocol, m.artifact>> /\ RemotePath(m) \in Place
          /\ LocalPath(m) # RemotePath(m)
          /\ m.op = "SaveToLocal" => Origin(m) = RemotePath(m) /\ Destination(m) = LocalPath(m)
          /\ m.op # "SaveToLocal" => Origin(m) = LocalPath(m) /\ Destination(m) = RemotePath(m)
<1>1. Protocol \subseteq Nat /\ Local \notin Nat /\ NoFile \notin Nat /\ Torn \notin Nat
  BY FileAssumption, BoundAssumption DEF Protocol
<1>2. \A m \in Message : m.artifact \in Artifact /\ m.protocol \in Protocol
  BY DEF Message
<1> QED BY <1>1, <1>2 DEF LocalPath, RemotePath, Place, Origin, Destination

\* A saver that is at work, or was.
LEMMA WorkOf ==
    ASSUME TypeOK, NEW s \in Saver, work[s] # Idle
    PROVE  /\ work[s] \in Work /\ work[s].message \in Message
           /\ work[s].message.op \in {"SaveToRemote", "SaveToLocal"}
           /\ work[s].message.artifact \in Artifact /\ work[s].message.protocol \in Protocol
           /\ Destination(work[s].message) \in Place /\ Origin(work[s].message) \in Place
<1>1. work[s] \in Work
  BY DEF TypeOK
<1>2. work[s].message \in Message
  BY <1>1 DEF Work
<1> QED BY <1>1, <1>2, Places DEF Message

LEMMA InitInv == Init => IInv
<1> SUFFICES ASSUME Init PROVE IInv
  OBVIOUS
<1>1. 0 \in Protocol
  BY BoundAssumption DEF Protocol
<1>2. PICK here \in SUBSET Stored :
         file = [x \in Place |-> IF x \in ({0} \X Stored) \union ({Local} \X here)
                                 THEN 0 ELSE NoFile]
  BY DEF Init
<1>3. \A s \in Saver : Waiting(s) = {} /\ Working(s) = {} /\ mailbox[s] = <<>>
  <2>1. In(<<>>) = {}
    BY DEF In
  <2>2. \A s \in Saver : mailbox[s] = <<>> /\ work[s] = Idle
    BY DEF Init
  <2> QED BY <2>1, <2>2 DEF Waiting, Working
<1>4. TypeOK
  <2>1. file \in [Place -> Content]
    BY <1>1, <1>2 DEF Content
  <2>2. mailbox \in [Saver -> Seq(Message)] /\ asks \in 0..MaxAsks
    BY BoundAssumption DEF Init
  <2> QED BY <1>1, <2>1, <2>2 DEF Init, TypeOK
<1>5. Requests
  BY <1>3 DEF Init, Requests
<1>6. Once
  BY <1>3 DEF Once, Chain
<1>7. Unsaved
  <2>1. ASSUME NEW a \in Artifact, NEW p \in Protocol, p > saved[a]
        PROVE  file[<<p, a>>] = NoFile
    <3>1. p # 0 /\ p # Local
      BY <2>1, Places DEF Init
    <3> QED BY <1>2, <3>1 DEF Place
  <2> QED BY <1>3, <2>1 DEF Init, Unsaved
<1>8. OwnFiles /\ Checksums
  BY DEF Init, OwnFiles, Checksums
<1>9. \A s \in Saver : Storing(s) /\ Fetching(s) /\ Alone(s)
  BY DEF Init, Storing, Fetching, Alone
<1>10. Properties
  BY DEF Init, Properties, StoresOwnOutput, CopiesWhatWasNamed, AloneNeverFails
<1> QED BY <1>4, <1>5, <1>6, <1>7, <1>8, <1>9, <1>10 DEF IInv

-----------------------------------------------------------------------------
(* What a step does                                                         *)

Works == [Saver -> Work \union {Idle}]

\* Saver t is not the one that takes the step: of its work only marks change,
\* and only the ones that tell of others.
Same(t, new) ==
    /\ new \in Work
    /\ new.message = work[t].message /\ new.at = work[t].at
    /\ new.read = work[t].read /\ new.stored = work[t].stored
    /\ new.undisturbed => work[t].undisturbed
    /\ new.alone => work[t].alone
    /\ new.open = work[t].open \/ \E u \in Saver : u # t /\ work[u] # Idle

Keeps(t, new) == IF work[t] = Idle THEN new = Idle ELSE Same(t, new)

LEMMA SameWork ==
    ASSUME TypeOK, NEW t \in Saver
    PROVE  Keeps(t, work[t])
<1> QED BY WorkOf DEF Keeps, Same

LEMMA DisturbedWork ==
    ASSUME TypeOK, NEW a, NEW s \in Saver \union {Idle}
    PROVE  /\ Disturbed(a, s) \in Works
           /\ \A t \in Saver : Keeps(t, Disturbed(a, s)[t])
           /\ \A t \in Saver : t # s /\ work[t] # Idle =>
                 (work[t].message.artifact = a => ~Disturbed(a, s)[t].undisturbed)
<1> DEFINE new(t) == IF t # s /\ work[t] # Idle /\ work[t].message.artifact = a
                     THEN [work[t] EXCEPT !.undisturbed = FALSE] ELSE work[t]
<1>1. ASSUME NEW t \in Saver PROVE new(t) \in Work \union {Idle} /\ Keeps(t, new(t))
  <2>1. CASE t # s /\ work[t] # Idle /\ work[t].message.artifact = a
    <3>1. work[t] \in Work
      BY <2>1, WorkOf
    <3>2. new(t) = [work[t] EXCEPT !.undisturbed = FALSE]
      BY <2>1
    <3>3. new(t) \in Work /\ ~new(t).undisturbed
          /\ new(t).message = work[t].message /\ new(t).at = work[t].at
          /\ new(t).read = work[t].read /\ new(t).stored = work[t].stored
          /\ new(t).open = work[t].open /\ new(t).alone = work[t].alone
      BY <3>1, <3>2 DEF Work
    <3> HIDE DEF new
    <3> QED BY <2>1, <3>3 DEF Keeps, Same
  <2>2. CASE ~(t # s /\ work[t] # Idle /\ work[t].message.artifact = a)
    BY <2>2, SameWork DEF TypeOK
  <2> QED BY <2>1, <2>2
<1>2. \A t \in Saver : t # s /\ work[t] # Idle =>
         (work[t].message.artifact = a => ~new(t).undisturbed)
  BY WorkOf DEF Work
<1>3. Disturbed(a, s) = [t \in Saver |-> new(t)]
  BY DEF Disturbed
<1> HIDE DEF new
<1> QED BY <1>1, <1>2, <1>3 DEF Works

\* Saver s goes on with w, and may have changed its local file.
LEMMA ChangesWork ==
    ASSUME TypeOK, NEW s \in Saver, NEW m \in Message, NEW w \in Work \union {Idle},
           Changes(s, m, w)
    PROVE  /\ work' \in Works /\ work'[s] = w
           /\ \A t \in Saver : t # s => Keeps(t, work'[t])
           /\ \A t \in Saver : t # s /\ work[t] # Idle =>
                 (m.op = "SaveToLocal" /\ work[t].message.artifact = m.artifact
                     => ~work'[t].undisturbed)
           /\ m.op = "SaveToLocal" => own' = own \ {m.artifact}
           /\ m.op # "SaveToLocal" => own' = own
<1> DEFINE old == IF m.op = "SaveToLocal" THEN Disturbed(m.artifact, s) ELSE work
<1>1. /\ old \in Works /\ \A t \in Saver : Keeps(t, old[t])
      /\ \A t \in Saver : t # s /\ work[t] # Idle =>
            (m.op = "SaveToLocal" /\ work[t].message.artifact = m.artifact
                => ~old[t].undisturbed)
  BY DisturbedWork, SameWork DEF Works, TypeOK
<1>2. work' = [old EXCEPT ![s] = w]
  BY DEF Changes
<1>3. /\ m.op = "SaveToLocal" => own' = own \ {m.artifact}
      /\ m.op # "SaveToLocal" => own' = own
  BY DEF Changes
<1> HIDE DEF old
<1>4. work' \in Works /\ work'[s] = w /\ \A t \in Saver : t # s => work'[t] = old[t]
  BY <1>1, <1>2 DEF Works
<1> QED BY <1>1, <1>3, <1>4

\* A file is changed by the saver that copies to it, and a local one not without
\* a mark on all others that handle it.
Touches(s) ==
    /\ file' \in [Place -> Content]
    /\ \A a \in Artifact : \A p \in Protocol :
          \/ file'[<<p, a>>] = file[<<p, a>>]
          \/ /\ work[s] # Idle /\ work[s].at \in {"copy", "create", "copying"}
             /\ work[s].message = SaveToRemote(a, p)
    /\ \A a \in Artifact :
          \/ file'[<<Local, a>>] = file[<<Local, a>>]
          \/ /\ work[s] # Idle /\ work[s].message.artifact = a /\ a \notin own'
             /\ \A t \in Saver : t # s /\ work[t] # Idle =>
                   (work[t].message.artifact = a => ~work'[t].undisturbed)
    /\ own' \subseteq own

LEMMA LeavesFiles ==
    ASSUME TypeOK, NEW s \in Saver, file' = file, own' \subseteq own
    PROVE  Touches(s)
<1> QED BY DEF Touches, TypeOK

LEMMA RemoteRequest ==
    ASSUME NEW m \in Message
    PROVE  m.op # "SaveToLocal" => m = SaveToRemote(m.artifact, m.protocol)
<1> QED BY DEF Message, SaveToRemote

LEMMA WritesDestination ==
    ASSUME TypeOK, NEW s \in Saver, work[s] # Idle,
           work[s].at \in {"copy", "create", "copying"},
           NEW c \in Content, NEW w \in Work \union {Idle},
           Changes(s, work[s].message, w),
           file' = [file EXCEPT ![Destination(work[s].message)] = c]
    PROVE  Touches(s)
<1> DEFINE m == work[s].message
           d == Destination(m)
<1>1. m \in Message /\ d \in Place /\ file \in [Place -> Content]
  BY WorkOf DEF TypeOK
<1>2. file' \in [Place -> Content] /\ \A x \in Place : x # d => file'[x] = file[x]
  BY <1>1
<1>3. \A a \in Artifact : <<Local, a>> \in Place /\ \A p \in Protocol : <<p, a>> \in Place
  BY DEF Place
<1>4. own' \subseteq own
  BY <1>1, ChangesWork
<1>5. CASE m.op = "SaveToLocal"
  <2>1. d = <<Local, m.artifact>> /\ Local \notin Protocol
    BY <1>1, <1>5, Places
  <2>2. \A a \in Artifact : \A p \in Protocol : file'[<<p, a>>] = file[<<p, a>>]
    <3>1. \A a \in Artifact : \A p \in Protocol : <<p, a>> # d
      BY <2>1
    <3> QED BY <1>2, <1>3, <3>1
  <2>3. \A a \in Artifact : a # m.artifact => file'[<<Local, a>>] = file[<<Local, a>>]
    BY <1>2, <1>3, <2>1
  <2>4. /\ m.artifact \notin own'
        /\ \A t \in Saver : t # s /\ work[t] # Idle =>
              (work[t].message.artifact = m.artifact => ~work'[t].undisturbed)
    BY <1>1, <1>5, ChangesWork
  <2> QED BY <1>2, <1>4, <2>2, <2>3, <2>4 DEF Touches
<1>6. CASE m.op # "SaveToLocal"
  <2>1. /\ d = <<m.protocol, m.artifact>> /\ m.protocol \in Protocol /\ Local \notin Protocol
        /\ m = SaveToRemote(m.artifact, m.protocol)
    BY <1>1, <1>6, Places, RemoteRequest DEF Message
  <2>2. \A a \in Artifact : \A p \in Protocol :
           file'[<<p, a>>] = file[<<p, a>>] \/ (p = m.protocol /\ a = m.artifact)
    <3>1. \A a \in Artifact : \A p \in Protocol :
             <<p, a>> = d => p = m.protocol /\ a = m.artifact
      BY <2>1
    <3> HIDE DEF m, d
    <3> QED BY <1>2, <1>3, <3>1
  <2>3. \A a \in Artifact : file'[<<Local, a>>] = file[<<Local, a>>]
    <3>1. \A a \in Artifact : <<Local, a>> # d
      BY <2>1
    <3> QED BY <1>2, <1>3, <3>1
  <2> QED BY <1>2, <1>4, <2>1, <2>2, <2>3 DEF Touches
<1> QED BY <1>5, <1>6

\* What each step of a saver leaves to the others.
Others(s) == work' \in Works /\ \A t \in Saver : t # s => Keeps(t, work'[t])

LEMMA OwnWorkOnly ==
    ASSUME TypeOK, NEW s \in Saver, NEW w \in Work \union {Idle},
           work' = [work EXCEPT ![s] = w]
    PROVE  Others(s) /\ work'[s] = w
<1>1. work' \in Works /\ work'[s] = w /\ \A t \in Saver : t # s => work'[t] = work[t]
  BY DEF Works, TypeOK
<1> QED BY <1>1, SameWork DEF Others

LEMMA TakeWork ==
    ASSUME TypeOK, NEW s \in Saver, Take(s)
    PROVE  /\ Others(s) /\ Touches(s)
           /\ \A t \in Saver : t # s /\ work[t] # Idle => ~work'[t].alone
           /\ work[s] = Idle /\ mailbox[s] # <<>> /\ Head(mailbox[s]) \in Message
           /\ mailbox' = [mailbox EXCEPT ![s] = Tail(@)]
           /\ work'[s] \in Work /\ work'[s].message = Head(mailbox[s])
           /\ work'[s].at = "validate" /\ work'[s].open
           /\ work'[s].stored =
                 (file[RemotePath(Head(mailbox[s]))] = Head(mailbox[s]).protocol)
           /\ work'[s].alone => \A t \in Saver : work[t] = Idle
<1> DEFINE m == Head(mailbox[s])
           others == {t \in Saver : work[t] # Idle}
           w == [message |-> m, at |-> "validate", open |-> TRUE,
                 read |-> NoFile, undisturbed |-> TRUE,
                 stored |-> file[RemotePath(m)] = m.protocol,
                 alone |-> others = {} /\ m.artifact \notin writing]
           new(t) == IF t = s THEN w
                     ELSE IF t \in others THEN [work[t] EXCEPT !.alone = FALSE]
                     ELSE Idle
<1>1. /\ work[s] = Idle /\ mailbox[s] # <<>> /\ mailbox[s] \in Seq(Message)
      /\ mailbox' = [mailbox EXCEPT ![s] = Tail(@)]
      /\ work' = [t \in Saver |-> new(t)]
      /\ UNCHANGED <<file, own>>
  BY DEF Take, TypeOK
<1>2. m \in Message
  BY <1>1, InTail
<1>3. w \in Work
  BY <1>2 DEF Work, Content
<1>4. ASSUME NEW t \in Saver, t # s
      PROVE  /\ new(t) \in Work \union {Idle} /\ Keeps(t, new(t))
             /\ work[t] # Idle => ~new(t).alone
  <2>1. CASE work[t] # Idle
    <3>1. work[t] \in Work /\ new(t) = [work[t] EXCEPT !.alone = FALSE]
      BY <1>4, <2>1, WorkOf
    <3>2. /\ new(t) \in Work /\ ~new(t).alone
          /\ new(t).message = work[t].message /\ new(t).at = work[t].at
          /\ new(t).read = work[t].read /\ new(t).stored = work[t].stored
          /\ new(t).open = work[t].open /\ new(t).undisturbed = work[t].undisturbed
      BY <3>1 DEF Work
    <3> HIDE DEF new
    <3> QED BY <2>1, <3>2 DEF Keeps, Same
  <2>2. CASE work[t] = Idle
    BY <1>4, <2>2 DEF Keeps
  <2> QED BY <2>1, <2>2
<1>5. w.alone => \A t \in Saver : work[t] = Idle
  OBVIOUS
<1>6. /\ w.message = m /\ w.at = "validate" /\ w.open
      /\ w.stored = (file[RemotePath(m)] = m.protocol)
  OBVIOUS
<1>7. work'[s] = w /\ \A t \in Saver : t # s => work'[t] = new(t)
  BY <1>1
<1>8. work' \in Works
  BY <1>1, <1>3, <1>4 DEF Works
<1>9. Touches(s)
  BY <1>1, LeavesFiles
<1> HIDE DEF w, new
<1> QED BY <1>1, <1>2, <1>3, <1>4, <1>5, <1>6, <1>7, <1>8, <1>9 DEF Others

LEMMA DoneWork ==
    ASSUME TypeOK, NEW s \in Saver, Done(s)
    PROVE  /\ Others(s) /\ Touches(s) /\ work'[s] = Idle
           /\ work[s] # Idle /\ work[s].at = "copied" /\ End(s, "Done")
<1> DEFINE new(t) == IF t = s THEN Idle
                     ELSE IF work[t] # Idle /\ manager = "HDFS" /\ work[s].open
                     THEN [work[t] EXCEPT !.open = FALSE] ELSE work[t]
<1>1. /\ work[s] # Idle /\ work[s].at = "copied" /\ End(s, "Done")
      /\ work' = [t \in Saver |-> new(t)]
      /\ UNCHANGED <<file, own>>
  BY DEF Done, At
<1>2. ASSUME NEW t \in Saver, t # s
      PROVE  new(t) \in Work \union {Idle} /\ Keeps(t, new(t))
  <2>1. CASE work[t] # Idle /\ manager = "HDFS" /\ work[s].open
    <3>1. work[t] \in Work /\ new(t) = [work[t] EXCEPT !.open = FALSE]
      BY <1>2, <2>1, WorkOf
    <3>2. /\ new(t) \in Work
          /\ new(t).message = work[t].message /\ new(t).at = work[t].at
          /\ new(t).read = work[t].read /\ new(t).stored = work[t].stored
          /\ new(t).alone = work[t].alone /\ new(t).undisturbed = work[t].undisturbed
      BY <3>1 DEF Work
    <3> HIDE DEF new
    <3> QED BY <1>1, <1>2, <2>1, <3>2 DEF Keeps, Same
  <2>2. CASE ~(work[t] # Idle /\ manager = "HDFS" /\ work[s].open)
    BY <1>2, <2>2, SameWork DEF TypeOK
  <2> QED BY <2>1, <2>2
<1>3. work'[s] = Idle /\ \A t \in Saver : t # s => work'[t] = new(t)
  BY <1>1
<1>4. work' \in Works
  BY <1>1, <1>2 DEF Works
<1>5. Touches(s)
  BY <1>1, LeavesFiles
<1> HIDE DEF new
<1> QED BY <1>1, <1>2, <1>3, <1>4, <1>5 DEF Others

\* Saver s comes to the next step of its request.
Advances(s, step) ==
    /\ work[s] # Idle /\ work'[s] \in Work /\ work'[s].at = step
    /\ work'[s].message = work[s].message /\ work'[s].open = work[s].open
    /\ work'[s].alone = work[s].alone /\ work'[s].stored = work[s].stored

LEMMA FoundWork ==
    ASSUME TypeOK, NEW s \in Saver, Found(s)
    PROVE  /\ Others(s) /\ Touches(s) /\ Advances(s, "copy") /\ work[s].at = "validate"
           /\ work'[s].undisturbed = work[s].undisturbed
           /\ file' = file /\ file[Origin(work[s].message)] # NoFile
<1> DEFINE w == [work[s] EXCEPT !.at = "copy"]
<1>1. /\ work[s] # Idle /\ work[s].at = "validate" /\ UNCHANGED <<file, own>>
      /\ file[Origin(work[s].message)] # NoFile
  BY DEF Found, At
<1>2. work[s] \in Work
  BY <1>1, WorkOf
<1>3. /\ w \in Work /\ w.at = "copy" /\ w.message = work[s].message
      /\ w.open = work[s].open /\ w.alone = work[s].alone /\ w.stored = work[s].stored
      /\ w.undisturbed = work[s].undisturbed
  BY <1>2 DEF Work
<1>4. work' = [work EXCEPT ![s] = w]
  BY <1>2 DEF Found, TypeOK
<1>5. Touches(s)
  BY <1>1, LeavesFiles
<1> HIDE DEF w
<1>6. Others(s) /\ work'[s] = w
  BY <1>3, <1>4, OwnWorkOnly
<1> QED BY <1>1, <1>3, <1>5, <1>6 DEF Advances

LEMMA ReplaceWork ==
    ASSUME TypeOK, NEW s \in Saver, Replace(s)
    PROVE  /\ Others(s) /\ Touches(s) /\ Advances(s, "create") /\ work[s].at = "copy"
           /\ work'[s].undisturbed = work[s].undisturbed
           /\ file' = [file EXCEPT ![Destination(work[s].message)] = NoFile]
<1> DEFINE w == [work[s] EXCEPT !.at = "create"]
<1>1. /\ work[s] # Idle /\ work[s].at = "copy"
      /\ file' = [file EXCEPT ![Destination(work[s].message)] = NoFile]
      /\ Changes(s, work[s].message, w)
  BY DEF Replace, At
<1>2. work[s] \in Work /\ work[s].message \in Message /\ NoFile \in Content
  BY <1>1, WorkOf DEF Content
<1>3. /\ w \in Work /\ w.at = "create" /\ w.message = work[s].message
      /\ w.open = work[s].open /\ w.alone = work[s].alone /\ w.stored = work[s].stored
      /\ w.undisturbed = work[s].undisturbed
  BY <1>2 DEF Work
<1> HIDE DEF w
<1>4. Others(s) /\ work'[s] = w
  BY <1>1, <1>2, <1>3, ChangesWork DEF Others
<1>5. Touches(s)
  BY <1>1, <1>2, <1>3, WritesDestination
<1> QED BY <1>1, <1>3, <1>4, <1>5 DEF Advances

LEMMA OpenWork ==
    ASSUME TypeOK, NEW s \in Saver, Open(s)
    PROVE  /\ Others(s) /\ Touches(s) /\ Advances(s, "copying")
           /\ work[s].at \in {"copy", "create"}
           /\ work'[s].read = file[Origin(work[s].message)]
           /\ file' \in {file, [file EXCEPT ![Destination(work[s].message)] = Torn]}
           /\ work[s].message.op # "SaveToLocal" => own' = own
<1> DEFINE m == work[s].message
           w == [work[s] EXCEPT !.at = "copying", !.read = file[Origin(m)],
                                !.undisturbed = @ \/ m.op = "SaveToLocal"]
<1>1. /\ work[s] # Idle /\ work[s].at \in {"copy", "create"}
      /\ file' \in {file, [file EXCEPT ![Destination(m)] = Torn]}
      /\ Changes(s, m, w)
  BY DEF Open, AtOpen, At
<1>2. work[s] \in Work /\ m \in Message /\ Torn \in Content /\ file[Origin(m)] \in Content
  BY <1>1, WorkOf DEF Content, TypeOK
<1>3. /\ w \in Work /\ w.at = "copying" /\ w.message = m
      /\ w.open = work[s].open /\ w.alone = work[s].alone /\ w.stored = work[s].stored
      /\ w.read = file[Origin(m)]
  BY <1>2 DEF Work
<1> HIDE DEF w
<1>4. /\ Others(s) /\ work'[s] = w /\ own' \subseteq own
      /\ m.op # "SaveToLocal" => own' = own
  BY <1>1, <1>2, <1>3, ChangesWork DEF Others
<1>5. Touches(s)
  BY <1>1, <1>2, <1>3, <1>4, WritesDestination, LeavesFiles
<1> QED BY <1>1, <1>3, <1>4, <1>5 DEF Advances

LEMMA WriteWork ==
    ASSUME TypeOK, NEW s \in Saver, Write(s)
    PROVE  /\ Others(s) /\ Touches(s) /\ Advances(s, "copied") /\ work[s].at = "copying"
           /\ work'[s].undisturbed = work[s].undisturbed
           /\ LET m == work[s].message
                  now == file[Origin(m)]
              IN  /\ \E c \in Content : file' = [file EXCEPT ![Destination(m)] = c]
                  /\ now = work[s].read /\ (m.op = "SaveToRemote" \/ work[s].undisturbed)
                        => file' = [file EXCEPT ![Destination(m)] = now]
           /\ work[s].message.op # "SaveToLocal" => own' = own
<1> DEFINE m == work[s].message
           w == [work[s] EXCEPT !.at = "copied"]
           now == file[Origin(m)]
           got == IF now = work[s].read THEN {now}
                  ELSE {now, work[s].read, Torn} \ {NoFile}
           mine == m.op = "SaveToRemote" \/ work[s].undisturbed
<1>1. /\ work[s] # Idle /\ work[s].at = "copying" /\ Changes(s, m, w)
  BY DEF Write, At
<1>2. PICK c \in IF mine THEN got ELSE got \union {file[Destination(m)], Torn} :
         file' = [file EXCEPT ![Destination(m)] = c]
  BY DEF Write
<1>3. /\ work[s] \in Work /\ m \in Message /\ Torn \in Content /\ now \in Content
      /\ file[Destination(m)] \in Content
  BY <1>1, WorkOf DEF Content, TypeOK
<1>4. work[s].read \in Content
  BY <1>3 DEF Work
<1>5. c \in Content
  BY <1>2, <1>3, <1>4
<1>6. now = work[s].read /\ mine => file' = [file EXCEPT ![Destination(m)] = now]
  BY <1>2
<1>7. /\ w \in Work /\ w.at = "copied" /\ w.message = m
      /\ w.open = work[s].open /\ w.alone = work[s].alone /\ w.stored = work[s].stored
      /\ w.undisturbed = work[s].undisturbed
  BY <1>3 DEF Work
<1> HIDE DEF w
<1>8. Others(s) /\ work'[s] = w /\ (m.op # "SaveToLocal" => own' = own)
  BY <1>1, <1>3, <1>7, ChangesWork DEF Others
<1>9. Touches(s)
  BY <1>1, <1>2, <1>3, <1>5, <1>7, WritesDestination
<1> QED BY <1>1, <1>2, <1>5, <1>6, <1>7, <1>8, <1>9 DEF Advances

\* A request that ends, in whatever way.
LEMMA EndWork ==
    ASSUME TypeOK, NEW s \in Saver, Ends(s)
    PROVE  Others(s) /\ Touches(s) /\ work[s] # Idle /\ work'[s] = Idle
<1>1. work[s] # Idle
  BY DEF Ends, Missing, Done, FindClosed, FindObstacle, FailChecksum, BreakOff, At
<1>2. work[s].message \in Message /\ NoFile \in Content /\ Torn \in Content
  BY <1>1, WorkOf DEF Content
<1>3. CASE Missing(s)
  BY <1>1, <1>3, OwnWorkOnly, LeavesFiles DEF Missing
<1>4. CASE Done(s)
  BY <1>1, <1>4, DoneWork
<1>5. ASSUME NEW o, Throw(s, o) PROVE Others(s) /\ Touches(s) /\ work'[s] = Idle
  <2>1. CASE /\ work[s].at = "copying" /\ Changes(s, work[s].message, Idle)
             /\ file' = [file EXCEPT ![Destination(work[s].message)] = NoFile]
    BY <1>1, <1>2, <2>1, ChangesWork, WritesDestination DEF Others
  <2>2. CASE work' = [work EXCEPT ![s] = Idle] /\ UNCHANGED <<file, own>>
    BY <2>2, OwnWorkOnly, LeavesFiles
  <2> QED BY <1>5, <2>1, <2>2 DEF Throw
<1>6. CASE FailChecksum(s)
  <2> DEFINE m == work[s].message
             d == Disturbed(m.artifact, s)
             r == RemotePath(m)
             l == LocalPath(m)
  <2>1. /\ work[s].at = "copy" /\ m.op = "SaveToRemote"
        /\ file' = [file EXCEPT ![r] = Torn, ![l] = NoFile]
        /\ work' = [d EXCEPT ![s] = Idle] /\ own' = own \ {m.artifact}
    BY <1>6 DEF FailChecksum, At, Obstacle
  <2>2. /\ d \in Works /\ \A t \in Saver : Keeps(t, d[t])
        /\ \A t \in Saver : t # s /\ work[t] # Idle =>
              (work[t].message.artifact = m.artifact => ~d[t].undisturbed)
    BY DisturbedWork
  <2>3. work' \in Works /\ work'[s] = Idle /\ \A t \in Saver : t # s => work'[t] = d[t]
    BY <2>1, <2>2 DEF Works
  <2>4. /\ r = <<m.protocol, m.artifact>> /\ l = <<Local, m.artifact>>
        /\ r \in Place /\ l \in Place /\ m = SaveToRemote(m.artifact, m.protocol)
    BY <1>2, <2>1, Places, RemoteRequest
  <2>5. /\ file' \in [Place -> Content]
        /\ \A x \in Place : x # r /\ x # l => file'[x] = file[x]
    BY <1>2, <2>1, <2>4 DEF TypeOK
  <2>6. \A a \in Artifact : \A p \in Protocol :
           file'[<<p, a>>] = file[<<p, a>>] \/ (p = m.protocol /\ a = m.artifact)
    <3>1. \A a \in Artifact : \A p \in Protocol :
             /\ <<p, a>> \in Place /\ <<p, a>> # l
             /\ <<p, a>> = r => p = m.protocol /\ a = m.artifact
      BY <2>4, Places DEF Place
    <3> HIDE DEF m, r, l
    <3> QED BY <2>5, <3>1
  <2>7. \A a \in Artifact : a # m.artifact => file'[<<Local, a>>] = file[<<Local, a>>]
    <3>1. m.protocol # Local
      BY <1>2, Places DEF Message
    <3>2. \A a \in Artifact :
             /\ <<Local, a>> \in Place /\ <<Local, a>> # r
             /\ <<Local, a>> = l => a = m.artifact
      BY <2>4, <3>1 DEF Place
    <3> HIDE DEF m, r, l
    <3> QED BY <2>5, <3>2
  <2>8. Touches(s)
    <3>1. m.artifact \notin own' /\ own' \subseteq own
      BY <2>1
    <3>2. \A t \in Saver : t # s /\ work[t] # Idle =>
             (work[t].message.artifact = m.artifact => ~work'[t].undisturbed)
      BY <2>2, <2>3
    <3>3. \A a \in Artifact : \A p \in Protocol :
             file'[<<p, a>>] = file[<<p, a>>] \/ m = SaveToRemote(a, p)
      BY <2>4, <2>6
    <3>4. work[s].at = "copy"
      BY <2>1
    <3>5. ASSUME NEW a \in Artifact, file'[<<Local, a>>] # file[<<Local, a>>]
          PROVE  /\ work[s].message.artifact = a /\ a \notin own'
                 /\ \A t \in Saver : t # s /\ work[t] # Idle =>
                       (work[t].message.artifact = a => ~work'[t].undisturbed)
      <4>1. a = m.artifact
        BY <2>7, <3>5
      <4> QED BY <3>1, <3>2, <4>1
    <3> HIDE DEF r, l, d
    <3> QED BY <1>1, <2>5, <3>1, <3>3, <3>4, <3>5 DEF Touches
  <2> HIDE DEF d
  <2> QED BY <1>1, <2>2, <2>3, <2>8 DEF Others
<1> QED BY <1>1, <1>3, <1>4, <1>5, <1>6 DEF Ends, FindClosed, FindObstacle, BreakOff

\* An engine changes one local file, and marks all savers that handle it.
LEMMA EngineWork ==
    ASSUME TypeOK, NEW a \in Artifact, NEW contents \in SUBSET Content,
           EngineWrites(a, contents)
    PROVE  /\ work' \in Works /\ \A t \in Saver : Keeps(t, work'[t])
           /\ \A t \in Saver : work[t] # Idle =>
                 (work[t].message.artifact = a => ~work'[t].undisturbed)
           /\ file' \in [Place -> Content] /\ file'[<<Local, a>>] \in contents
           /\ \A b \in Artifact : \A p \in Protocol : file'[<<p, b>>] = file[<<p, b>>]
           /\ \A b \in Artifact : b # a => file'[<<Local, b>>] = file[<<Local, b>>]
           /\ crc' \in [Artifact -> {"none", "good", "stale"}]
           /\ \A b \in Artifact : crc'[b] # "none" => crc[b] # "none"
           /\ UNCHANGED <<manager, mailbox, saved, asks>>
<1>1. PICK c \in contents : file' = [file EXCEPT ![<<Local, a>>] = c]
  BY DEF EngineWrites
<1>2. /\ work' = Disturbed(a, Idle) /\ UNCHANGED <<manager, mailbox, saved, asks>>
      /\ crc' = [crc EXCEPT ![a] = IF crc[a] = "none" THEN crc[a] ELSE "stale"]
  BY DEF EngineWrites
<1>3. /\ work' \in Works /\ \A t \in Saver : Keeps(t, work'[t])
      /\ \A t \in Saver : work[t] # Idle =>
            (work[t].message.artifact = a => ~work'[t].undisturbed)
  BY <1>2, DisturbedWork, IdleAssumption
<1>4. c \in Content /\ <<Local, a>> \in Place /\ file \in [Place -> Content]
  BY DEF Place, TypeOK
<1>5. /\ file' \in [Place -> Content] /\ file'[<<Local, a>>] = c
      /\ \A x \in Place : x # <<Local, a>> => file'[x] = file[x]
  BY <1>1, <1>4
<1>6. \A b \in Artifact : \A p \in Protocol : <<p, b>> \in Place /\ <<p, b>> # <<Local, a>>
  BY Places DEF Place
<1>7. \A b \in Artifact : b # a => <<Local, b>> \in Place /\ <<Local, b>> # <<Local, a>>
  BY DEF Place
<1>8. /\ crc' \in [Artifact -> {"none", "good", "stale"}]
      /\ \A b \in Artifact : crc'[b] # "none" => crc[b] # "none"
  BY <1>2 DEF TypeOK
<1> QED BY <1>1, <1>2, <1>3, <1>5, <1>6, <1>7, <1>8

\* Messages that the actions send.
LEMMA SendWork ==
    ASSUME TypeOK, NEW s \in Saver, NEW m \in Message, Send(s, m)
    PROVE  /\ mailbox' \in [Saver -> Seq(Message)] /\ asks' \in 0..MaxAsks
           /\ mailbox'[s] = Append(mailbox[s], m) /\ mailbox[s] \in Seq(Message)
           /\ \A t \in Saver : t # s => mailbox'[t] = mailbox[t]
           /\ In(mailbox[s])' = In(mailbox[s]) \union {m}
           /\ UNCHANGED <<manager, work, disk, engine>>
<1>1. /\ mailbox[s] \in Seq(Message) /\ mailbox' = [mailbox EXCEPT ![s] = Append(@, m)]
      /\ asks' = asks + 1 /\ asks < MaxAsks /\ UNCHANGED <<manager, work, disk, engine>>
  BY DEF Send, TypeOK
<1>2. asks' \in 0..MaxAsks
  BY <1>1, BoundAssumption DEF TypeOK
<1>3. Append(mailbox[s], m) \in Seq(Message)
      /\ In(Append(mailbox[s], m)) = In(mailbox[s]) \union {m}
  BY <1>1, InAppend
<1>4. /\ mailbox' \in [Saver -> Seq(Message)] /\ mailbox'[s] = Append(mailbox[s], m)
      /\ \A t \in Saver : t # s => mailbox'[t] = mailbox[t]
  BY <1>1, <1>3 DEF TypeOK
<1>5. In(mailbox[s])' = In(mailbox'[s])
  BY DEF In
<1> QED BY <1>1, <1>2, <1>3, <1>4, <1>5

\* The message that a saver takes.
LEMMA TakeMail ==
    ASSUME TypeOK, NEW s \in Saver, Take(s)
    PROVE  /\ mailbox' \in [Saver -> Seq(Message)] /\ mailbox'[s] = Tail(mailbox[s])
           /\ \A t \in Saver : t # s => mailbox'[t] = mailbox[t]
           /\ In(mailbox[s]) = {Head(mailbox[s])} \union In(mailbox[s])'
<1>1. /\ mailbox[s] \in Seq(Message) /\ mailbox[s] # <<>>
      /\ mailbox' = [mailbox EXCEPT ![s] = Tail(@)]
  BY DEF Take, TypeOK
<1>2. /\ Tail(mailbox[s]) \in Seq(Message)
      /\ In(mailbox[s]) = {Head(mailbox[s])} \union In(Tail(mailbox[s]))
  BY <1>1, InTail
<1>3. /\ mailbox' \in [Saver -> Seq(Message)] /\ mailbox'[s] = Tail(mailbox[s])
      /\ \A t \in Saver : t # s => mailbox'[t] = mailbox[t]
  BY <1>1, <1>2 DEF TypeOK
<1>4. In(mailbox[s])' = In(mailbox'[s])
  BY DEF In
<1> QED BY <1>2, <1>3, <1>4

\* The outcome of a request.
LEMMA EndResult ==
    ASSUME TypeOK, NEW s \in Saver, work[s] # Idle, NEW o, End(s, o),
           o \in {"Done", "closed", "vanished", "exists", "checksum", "broken"}
    PROVE  /\ last' \in Result /\ last'.message = work[s].message /\ last'.outcome = o
           /\ last'.got = file[Destination(work[s].message)]
           /\ last'.alone = (work[s].alone /\ work[s].undisturbed)
           /\ last'.undisturbed = work[s].undisturbed /\ last'.stored = work[s].stored
           /\ last'.own = (/\ work[s].message.artifact \in own \ writing
                           /\ work[s].message.protocol = run[work[s].message.artifact])
<1> DEFINE m == work[s].message
           f == file[Destination(m)]
           yes == m.artifact \in own \ writing /\ m.protocol = run[m.artifact]
<1>1. work[s] \in Work /\ m \in Message /\ f \in Content
  BY WorkOf DEF TypeOK
<1>2. /\ work[s].alone \in BOOLEAN /\ work[s].undisturbed \in BOOLEAN
      /\ work[s].stored \in BOOLEAN
  BY <1>1 DEF Work
<1>3. yes \in BOOLEAN
  OBVIOUS
<1>4. last' = [message |-> m, outcome |-> o, got |-> f,
               alone |-> work[s].alone /\ work[s].undisturbed,
               undisturbed |-> work[s].undisturbed, stored |-> work[s].stored, own |-> yes]
  BY DEF End
<1> HIDE DEF m, f, yes
<1>5. /\ last' \in Result /\ last'.message = m /\ last'.outcome = o /\ last'.got = f
      /\ last'.alone = (work[s].alone /\ work[s].undisturbed)
      /\ last'.undisturbed = work[s].undisturbed /\ last'.stored = work[s].stored
      /\ last'.own = yes
  BY <1>1, <1>2, <1>3, <1>4 DEF Result
<1> QED BY <1>5 DEF m, f, yes

\* What all steps of savers have in common.
LEMMA SaverWork ==
    ASSUME TypeOK, NEW s \in Saver, Step(s)
    PROVE  /\ Others(s) /\ Touches(s) /\ UNCHANGED <<manager, run, writing, saved, asks>>
           /\ Take(s) \/ mailbox' = mailbox
           /\ crc' \in [Artifact -> {"none", "good", "stale"}]
           /\ \A a \in Artifact : crc'[a] # "none" =>
                 \/ crc[a] # "none"
                 \/ /\ work[s] # Idle /\ work[s].message.op = "SaveToLocal"
                    /\ work[s].message.artifact = a
           /\ last' \in Result \union {Idle}
<1>1. CASE Ends(s)
  <2>1. Others(s) /\ Touches(s) /\ work[s] # Idle
    BY <1>1, EndWork
  <2>2. UNCHANGED <<manager, run, writing, saved, asks, mailbox>>
    BY <1>1
    DEF Ends, Missing, Done, FindClosed, FindObstacle, FailChecksum, BreakOff, Throw
  <2>3. \/ crc' = crc
        \/ work[s].message.artifact \in Artifact
              /\ crc' = [crc EXCEPT ![work[s].message.artifact] = "none"]
    BY <1>1, <2>1, WorkOf
    DEF Ends, Missing, Done, FindClosed, FindObstacle, FailChecksum, BreakOff, Throw
  <2>4. PICK o \in {"Done", "closed", "vanished", "exists", "checksum", "broken"} : End(s, o)
    BY <1>1
    DEF Ends, Missing, Done, FindClosed, FindObstacle, FailChecksum, BreakOff, Throw
  <2>5. last' \in Result
    BY <2>1, <2>4, EndResult
  <2> QED BY <2>1, <2>2, <2>3, <2>5 DEF TypeOK
<1>2. CASE GoesOn(s) /\ last' = Idle
  <2>1. Others(s) /\ Touches(s)
    BY <1>2, TakeWork, FoundWork, ReplaceWork, OpenWork, WriteWork DEF GoesOn
  <2>2. UNCHANGED <<manager, run, writing, saved, asks>> /\ (Take(s) \/ mailbox' = mailbox)
    BY <1>2 DEF GoesOn, Take, Found, Replace, Open, Write
  <2>3. CASE crc' = crc
    BY <1>2, <2>1, <2>2, <2>3 DEF TypeOK
  <2>4. CASE crc' # crc
    <3> DEFINE m == work[s].message
    <3>1. Open(s) \/ Write(s)
      BY <1>2, <2>4 DEF GoesOn, Take, Found, Replace
    <3>2. work[s] # Idle
      BY <3>1 DEF Open, AtOpen, Write, At
    <3>3. m.op \in {"SaveToRemote", "SaveToLocal"} /\ m.artifact \in Artifact
      BY <3>2, WorkOf
    <3>4. /\ m.op = "SaveToLocal"
          /\ \E c \in {"good", "stale"} : crc' = [crc EXCEPT ![m.artifact] = c]
      BY <2>4, <3>1, <3>3 DEF Open, Write
    <3> QED BY <1>2, <2>1, <2>2, <3>2, <3>3, <3>4 DEF TypeOK
  <2> QED BY <2>3, <2>4
<1> QED BY <1>1, <1>2 DEF Step

\* The kinds of steps.
LEMMA Steps ==
    ASSUME [Next]_vars
    PROVE  \/ \E s \in Saver : Step(s)
           \/ \E s \in Saver, a \in Artifact : SendToRemote(s, a) /\ last' = Idle
           \/ \E s \in Saver, a \in Artifact, p \in Protocol :
                 SendToLocal(s, a, p) /\ last' = Idle
           \/ \E a \in Artifact : (EngineBegins(a) \/ EngineEnds(a)) /\ last' = Idle
           \/ UNCHANGED vars
<1> QED BY DEF Next, Ask

\* Messages that are sent have their type.
LEMMA SendTypes ==
    ASSUME TypeOK, NEW a \in Artifact
    PROVE  /\ SaveToRemote(a, run[a]) \in Message
           /\ \A p \in Protocol : SaveToLocal(a, p) \in Message
<1> QED BY DEF TypeOK, SaveToRemote, SaveToLocal, Message

LEMMA EngineContents ==
    ASSUME TypeOK, NEW a \in Artifact
    PROVE  /\ {Torn} \in SUBSET Content
           /\ {run[a]} \union (IF a \in own THEN {} ELSE {file[<<Local, a>>], Torn})
                 \in SUBSET Content
<1>1. <<Local, a>> \in Place /\ run[a] \in Protocol
  BY DEF Place, TypeOK
<1> QED BY <1>1 DEF TypeOK, Content

LEMMA StepTypes == TypeOK /\ [Next]_vars => TypeOK'
<1> SUFFICES ASSUME TypeOK, [Next]_vars PROVE TypeOK'
  OBVIOUS
<1>1. ASSUME NEW s \in Saver, Step(s) PROVE TypeOK'
  <2>1. /\ work' \in Works /\ file' \in [Place -> Content] /\ own' \subseteq own
        /\ UNCHANGED <<manager, run, writing, saved, asks>>
        /\ crc' \in [Artifact -> {"none", "good", "stale"}]
        /\ last' \in Result \union {Idle}
    BY <1>1, SaverWork DEF Others, Touches
  <2>2. mailbox' \in [Saver -> Seq(Message)]
    BY <1>1, SaverWork, TakeMail DEF TypeOK
  <2> QED BY <2>1, <2>2 DEF TypeOK, Works
<1>2. ASSUME NEW s \in Saver, NEW a \in Artifact, SendToRemote(s, a), last' = Idle
      PROVE  TypeOK'
  <2>1. /\ mailbox' \in [Saver -> Seq(Message)] /\ asks' \in 0..MaxAsks
        /\ UNCHANGED <<manager, work, disk, engine>>
    BY <1>2, SendTypes, SendWork DEF SendToRemote
  <2>2. saved' \in [Artifact -> Protocol]
    BY <1>2 DEF SendToRemote, TypeOK
  <2> QED BY <1>2, <2>1, <2>2 DEF TypeOK
<1>3. ASSUME NEW s \in Saver, NEW a \in Artifact, NEW p \in Protocol,
             SendToLocal(s, a, p), last' = Idle
      PROVE  TypeOK'
  <2>1. /\ mailbox' \in [Saver -> Seq(Message)] /\ asks' \in 0..MaxAsks
        /\ UNCHANGED <<manager, work, disk, engine, saved>>
    BY <1>3, SendTypes, SendWork DEF SendToLocal
  <2> QED BY <1>3, <2>1 DEF TypeOK
<1>4. ASSUME NEW a \in Artifact, EngineBegins(a) \/ EngineEnds(a), last' = Idle
      PROVE  TypeOK'
  <2>1. PICK contents \in SUBSET Content : EngineWrites(a, contents)
    BY <1>4, EngineContents DEF EngineBegins, EngineEnds
  <2>2. /\ work' \in Works /\ file' \in [Place -> Content]
        /\ crc' \in [Artifact -> {"none", "good", "stale"}]
        /\ UNCHANGED <<manager, mailbox, saved, asks>>
    BY <2>1, EngineWork
  <2>3. writing' \subseteq Artifact /\ own' \subseteq Artifact
    BY <1>4 DEF EngineBegins, EngineEnds, TypeOK
  <2>4. run' \in [Artifact -> Protocol]
    BY <1>4, BoundAssumption DEF EngineBegins, EngineEnds, TypeOK, Protocol
  <2> QED BY <1>4, <2>2, <2>3, <2>4 DEF TypeOK, Works
<1>5. CASE UNCHANGED vars
  BY <1>5 DEF vars, TypeOK
<1> QED BY <1>1, <1>2, <1>3, <1>4, <1>5, Steps

-----------------------------------------------------------------------------
(* Requests are carried out once                                            *)

\* A step of a saver makes no new message: it takes one, or ends one, or none.
LEMMA SaverMessages ==
    ASSUME TypeOK, NEW s \in Saver, Step(s)
    PROVE  /\ \A t \in Saver : t # s => Waiting(t)' = Waiting(t) /\ Working(t)' = Working(t)
           /\ \/ Waiting(s)' = Waiting(s) /\ Working(s)' \subseteq Working(s)
              \/ /\ Take(s) /\ Working(s) = {} /\ Working(s)' = {Head(mailbox[s])}
                 /\ Waiting(s) = {Head(mailbox[s])} \union Waiting(s)'
<1>1. ASSUME NEW t \in Saver, t # s PROVE Working(t)' = Working(t)
  <2>1. Keeps(t, work'[t])
    BY <1>1, SaverWork DEF Others
  <2> QED BY <2>1, IdleAssumption DEF Keeps, Same, Working
<1>2. CASE Take(s)
  <2>1. \A t \in Saver : t # s => Waiting(t)' = Waiting(t)
    BY <1>2, TakeMail DEF Waiting, In
  <2>2. Waiting(s) = {Head(mailbox[s])} \union Waiting(s)'
    BY <1>2, TakeMail DEF Waiting
  <2>3. Working(s) = {} /\ Working(s)' = {Head(mailbox[s])}
    BY <1>2, TakeWork, IdleAssumption DEF Working
  <2> QED BY <1>1, <1>2, <2>1, <2>2, <2>3
<1>3. CASE ~Take(s)
  <2>1. \A t \in Saver : Waiting(t)' = Waiting(t)
    BY <1>3, SaverWork DEF Waiting, In
  <2>2. work'[s] = Idle \/ (work[s] # Idle /\ work'[s].message = work[s].message)
    BY <1>3, EndWork, FoundWork, ReplaceWork, OpenWork, WriteWork
    DEF Step, GoesOn, Advances
  <2>3. Working(s)' \subseteq Working(s)
    BY <2>2 DEF Working
  <2> QED BY <1>1, <2>1, <2>3
<1> QED BY <1>2, <1>3

\* An action sends one message.
LEMMA SendMessages ==
    ASSUME TypeOK, NEW s \in Saver, NEW m \in Message, Send(s, m)
    PROVE  /\ \A t \in Saver : t # s => Waiting(t)' = Waiting(t)
           /\ \A t \in Saver : Working(t)' = Working(t)
           /\ Waiting(s)' = Waiting(s) \union {m}
<1>1. \A t \in Saver : t # s => mailbox'[t] = mailbox[t]
  BY SendWork
<1>2. In(mailbox[s])' = In(mailbox[s]) \union {m} /\ work' = work
  BY SendWork
<1> QED BY <1>1, <1>2 DEF Waiting, Working, In

\* Nobody has a message yet that asks to store the last run.
LEMMA NewRequest ==
    ASSUME TypeOK, Requests, NEW a \in Artifact, saved[a] < run[a]
    PROVE  \A t \in Saver : SaveToRemote(a, run[a]) \notin Waiting(t) \union Working(t)
<1>1. saved[a] \in Nat /\ run[a] \in Nat
  BY Places DEF TypeOK
<1> QED BY <1>1 DEF Requests, SaveToRemote

\* Engines and restarts of engines send nothing.
LEMMA EngineMessages ==
    ASSUME \A t \in Saver : Keeps(t, work'[t]), mailbox' = mailbox
    PROVE  \A t \in Saver : Waiting(t)' = Waiting(t) /\ Working(t)' = Working(t)
<1>1. \A t \in Saver : Working(t)' = Working(t)
  BY IdleAssumption DEF Keeps, Same, Working
<1> QED BY <1>1 DEF Waiting, In

\* An engine at the artifact a.
LEMMA EngineStep ==
    ASSUME TypeOK, NEW a \in Artifact, EngineBegins(a) \/ EngineEnds(a)
    PROVE  /\ \A t \in Saver : Keeps(t, work'[t]) /\ work' \in Works
           /\ \A t \in Saver : work[t] # Idle =>
                 (work[t].message.artifact = a => ~work'[t].undisturbed)
           /\ \A b \in Artifact : \A p \in Protocol : file'[<<p, b>>] = file[<<p, b>>]
           /\ \A b \in Artifact : b # a => file'[<<Local, b>>] = file[<<Local, b>>]
           /\ \A b \in Artifact : crc'[b] # "none" => crc[b] # "none"
           /\ UNCHANGED <<mailbox, saved>>
           /\ \A b \in Artifact : b # a =>
                 /\ run'[b] = run[b]
                 /\ b \in writing' <=> b \in writing
                 /\ b \in own' <=> b \in own
           /\ \/ a \in writing' /\ run'[a] = run[a] + 1
              \/ /\ a \in writing /\ a \notin writing' /\ run' = run /\ own' = own
                 /\ a \in own => file'[<<Local, a>>] = run[a]
<1>1. PICK contents \in SUBSET Content : EngineWrites(a, contents)
  BY EngineContents DEF EngineBegins, EngineEnds
<1>2. CASE EngineBegins(a)
  BY <1>1, <1>2, EngineWork DEF EngineBegins, TypeOK
<1>3. CASE EngineEnds(a)
  <2>1. EngineWrites(a, {run[a]} \union (IF a \in own THEN {} ELSE {file[<<Local, a>>], Torn}))
    BY <1>3 DEF EngineEnds
  <2>2. a \in own => file'[<<Local, a>>] = run[a]
    BY <2>1, EngineContents, EngineWork
  <2> QED BY <1>1, <1>3, <2>2, EngineWork DEF EngineEnds
<1> QED BY <1>2, <1>3

LEMMA StepRequests == TypeOK /\ Requests /\ [Next]_vars => Requests'
<1> SUFFICES ASSUME TypeOK, Requests, [Next]_vars PROVE Requests'
  OBVIOUS
<1>1. /\ saved \in [Artifact -> Protocol] /\ Protocol \subseteq Nat
      /\ \A b \in Artifact : saved[b] \in Nat /\ run[b] \in Nat
  BY Places DEF TypeOK
<1>2. ASSUME NEW s \in Saver, Step(s) PROVE Requests'
  <2>1. \A t \in Saver :
           Waiting(t)' \union Working(t)' \subseteq Waiting(t) \union Working(t)
    BY <1>2, SaverMessages
  <2>2. UNCHANGED <<saved, run, writing>>
    BY <1>2, SaverWork
  <2> QED BY <2>1, <2>2 DEF Requests
<1>3. ASSUME NEW s \in Saver, NEW a \in Artifact, SendToRemote(s, a) PROVE Requests'
  <2> DEFINE m == SaveToRemote(a, run[a])
  <2>1. /\ a \notin writing /\ saved[a] < run[a] /\ saved' = [saved EXCEPT ![a] = run[a]]
        /\ m \in Message /\ Send(s, m) /\ UNCHANGED <<run, writing>>
    BY <1>3, SendTypes DEF SendToRemote, Send
  <2>2. \A t \in Saver : Waiting(t)' \union Working(t)'
                            \subseteq Waiting(t) \union Working(t) \union {m}
    BY <2>1, SendMessages
  <2>3. m.op = "SaveToRemote" /\ m.artifact = a /\ m.protocol = run[a]
    BY DEF SaveToRemote
  <2> HIDE DEF m
  <2>4. saved'[a] = run[a] /\ \A b \in Artifact : b # a => saved'[b] = saved[b]
    BY <1>1, <2>1
  <2>5. \A b \in Artifact : saved'[b] \in Nat /\ saved[b] \in Nat /\ saved[b] <= saved'[b]
    BY <1>1, <2>1, <2>4
  <2>6. \A b \in Artifact : saved'[b] <= run'[b] /\ (b \in writing' => saved'[b] < run'[b])
    BY <1>1, <2>1, <2>5 DEF Requests
  <2>7. ASSUME NEW t \in Saver, NEW n \in Waiting(t)' \union Working(t)'
        PROVE  /\ n.op = "SaveToRemote" => n.protocol <= saved'[n.artifact]
               /\ n.op = "SaveToLocal" => n.artifact \in ArtifactsToLoad[t]
    <3>1. CASE n = m
      BY <1>1, <2>3, <2>4, <3>1
    <3>2. CASE n \in Waiting(t) \union Working(t)
      <4>1. n \in Message
        BY <3>2, InType, WorkOf DEF Waiting, Working, TypeOK
      <4>2. n.artifact \in Artifact /\ n.protocol \in Nat
        BY <1>1, <4>1 DEF Message
      <4> QED BY <2>5, <3>2, <4>2 DEF Requests
    <3> QED BY <2>2, <3>1, <3>2
  <2> QED BY <2>6, <2>7 DEF Requests
<1>4. ASSUME NEW s \in Saver, NEW a \in Artifact, NEW p \in Protocol, SendToLocal(s, a, p)
      PROVE  Requests'
  <2> DEFINE m == SaveToLocal(a, p)
  <2>1. /\ m \in Message /\ Send(s, m) /\ UNCHANGED <<saved, run, writing>>
        /\ a \in ArtifactsToLoad[s]
    BY <1>4, SendTypes DEF SendToLocal, Send
  <2>2. /\ \A t \in Saver : t # s => Waiting(t)' \union Working(t)'
                                        = Waiting(t) \union Working(t)
        /\ Waiting(s)' \union Working(s)' = Waiting(s) \union Working(s) \union {m}
    BY <2>1, SendMessages
  <2>3. m.op = "SaveToLocal" /\ m.artifact = a
    BY DEF SaveToLocal
  <2> HIDE DEF m
  <2> QED BY <2>1, <2>2, <2>3 DEF Requests
<1>5. ASSUME NEW a \in Artifact, EngineBegins(a) \/ EngineEnds(a) PROVE Requests'
  <2>1. \A t \in Saver : Waiting(t)' = Waiting(t) /\ Working(t)' = Working(t)
    BY <1>5, EngineStep, EngineMessages
  <2>2. \A b \in Artifact : saved[b] <= run'[b] /\ (b \in writing' => saved[b] < run'[b])
    <3>1. \A b \in Artifact :
             b # a => run'[b] = run[b] /\ (b \in writing' <=> b \in writing)
      BY <1>5, EngineStep
    <3>2. \/ a \in writing' /\ run'[a] = run[a] + 1
          \/ a \in writing /\ a \notin writing' /\ run' = run
      BY <1>5, EngineStep
    <3>3. \A b \in Artifact : saved[b] <= run[b] /\ (b \in writing => saved[b] < run[b])
      BY DEF Requests
    <3> QED BY <1>1, <3>1, <3>2, <3>3
  <2>3. saved' = saved
    BY <1>5, EngineStep
  <2> QED BY <2>1, <2>2, <2>3 DEF Requests
<1>6. CASE UNCHANGED vars
  BY <1>6 DEF vars, Requests, Waiting, Working, In
<1> QED BY <1>2, <1>3, <1>4, <1>5, <1>6, Steps

LEMMA StepOnce == TypeOK /\ Requests /\ Once /\ [Next]_vars => Once'
<1> SUFFICES ASSUME TypeOK, Requests, Once, [Next]_vars PROVE Once'
  OBVIOUS
<1>1. \A t \in Saver : mailbox[t] \in Seq(Message) /\ Waiting(t) \subseteq Message
                       /\ Chain(mailbox[t], Apart)
  BY InType DEF TypeOK, Once, Waiting
<1>2. ASSUME NEW s \in Saver, Step(s) PROVE Once'
  <2>1. \A t \in Saver : t # s => Waiting(t)' = Waiting(t) /\ Working(t)' = Working(t)
    BY <1>2, SaverMessages
  <2>2. CASE ~Take(s)
    <3>1. mailbox' = mailbox
      BY <1>2, <2>2, SaverWork
    <3>2. \A t \in Saver : Chain(mailbox[t], Apart)'
      BY <1>1, <3>1
    <3>3. \A t \in Saver : Waiting(t)' = Waiting(t)
      BY <3>1 DEF Waiting, In
    <3>4. Working(s)' \subseteq Working(s)
      BY <1>2, <2>2, SaverMessages
    <3> QED BY <2>1, <3>2, <3>3, <3>4 DEF Once
  <2>3. CASE Take(s)
    <3> DEFINE h == Head(mailbox[s])
    <3>1. mailbox[s] # <<>> /\ mailbox'[s] = Tail(mailbox[s])
          /\ \A t \in Saver : t # s => mailbox'[t] = mailbox[t]
      BY <2>3, TakeWork, TakeMail
    <3>2. Chain(Tail(mailbox[s]), Apart) /\ \A m \in In(Tail(mailbox[s])) : <<h, m>> \in Apart
      BY <1>1, <3>1, ChainTail
    <3>3. Waiting(s)' = In(Tail(mailbox[s]))
      BY <3>1 DEF Waiting, In
    <3>4. h.op = "SaveToRemote" => h \notin Waiting(s)'
      BY <3>2, <3>3 DEF Apart
    <3>5. \A t \in Saver : Chain(mailbox[t], Apart)'
      BY <1>1, <3>1, <3>2 DEF Chain
    <3>6. Waiting(s) = {h} \union Waiting(s)'
      BY <2>3, TakeMail DEF Waiting
    <3>7. Working(s)' = {h}
      BY <2>3, TakeWork, IdleAssumption DEF Working
    <3> HIDE DEF h
    <3>8. h.op = "SaveToRemote" =>
             \A t \in Saver : t # s => h \notin Waiting(t) /\ h \notin Working(t)
      BY <3>6 DEF Once
    <3> QED BY <2>1, <3>4, <3>5, <3>6, <3>7, <3>8 DEF Once
  <2> QED BY <2>2, <2>3
<1>3. ASSUME NEW s \in Saver, NEW m \in Message, Send(s, m),
             m.op = "SaveToRemote" =>
                 \A t \in Saver : m \notin Waiting(t) \union Working(t)
      PROVE  Once'
  <2>1. /\ \A t \in Saver : t # s => Waiting(t)' = Waiting(t) /\ mailbox'[t] = mailbox[t]
        /\ \A t \in Saver : Working(t)' = Working(t)
        /\ Waiting(s)' = Waiting(s) \union {m} /\ mailbox'[s] = Append(mailbox[s], m)
    BY <1>3, SendWork, SendMessages
  <2>2. \A n \in In(mailbox[s]) : <<n, m>> \in Apart
    BY <1>1, <1>3 DEF Apart, Waiting
  <2>3. Chain(Append(mailbox[s], m), Apart)
    BY <1>1, <2>2, ChainAppend
  <2>4. \A t \in Saver : Chain(mailbox[t], Apart)'
    BY <1>1, <2>1, <2>3 DEF Chain
  <2> QED BY <1>3, <2>1, <2>4 DEF Once
<1>4. ASSUME NEW s \in Saver, NEW a \in Artifact, SendToRemote(s, a) PROVE Once'
  <2>1. SaveToRemote(a, run[a]) \in Message /\ Send(s, SaveToRemote(a, run[a]))
        /\ saved[a] < run[a]
    BY <1>4, SendTypes DEF SendToRemote
  <2> QED BY <1>3, <2>1, NewRequest
<1>5. ASSUME NEW s \in Saver, NEW a \in Artifact, NEW p \in Protocol, SendToLocal(s, a, p)
      PROVE  Once'
  BY <1>3, <1>5, SendTypes DEF SendToLocal, SaveToLocal
<1>6. ASSUME NEW a \in Artifact, EngineBegins(a) \/ EngineEnds(a) PROVE Once'
  <2>1. (\A t \in Saver : Waiting(t)' = Waiting(t) /\ Working(t)' = Working(t))
        /\ mailbox' = mailbox
    BY <1>6, EngineStep, EngineMessages
  <2> QED BY <1>1, <2>1 DEF Once
<1>7. CASE UNCHANGED vars
  <2>1. \A t \in Saver : Waiting(t)' = Waiting(t) /\ Working(t)' = Working(t)
    BY <1>7 DEF vars, Waiting, Working, In
  <2> QED BY <1>1, <1>7, <2>1 DEF vars, Once
<1> QED BY <1>2, <1>4, <1>5, <1>6, <1>7, Steps

LEMMA StepChecksums == TypeOK /\ Requests /\ Checksums /\ [Next]_vars => Checksums'
<1> SUFFICES ASSUME TypeOK, Requests, Checksums, [Next]_vars PROVE Checksums'
  OBVIOUS
<1>1. ASSUME NEW s \in Saver, Step(s) PROVE Checksums'
  <2>1. ASSUME NEW a \in Artifact, crc'[a] # "none"
        PROVE  \E t \in Saver : a \in ArtifactsToLoad[t]
    <3>1. CASE crc[a] # "none"
      BY <3>1 DEF Checksums
    <3>2. CASE /\ work[s] # Idle /\ work[s].message.op = "SaveToLocal"
               /\ work[s].message.artifact = a
      BY <3>2 DEF Requests, Working
    <3> QED BY <1>1, <2>1, <3>1, <3>2, SaverWork
  <2> QED BY <2>1 DEF Checksums
<1>2. ASSUME NEW a \in Artifact, EngineBegins(a) \/ EngineEnds(a) PROVE Checksums'
  BY <1>2, EngineStep DEF Checksums
<1>3. CASE crc' = crc
  BY <1>3 DEF Checksums
<1> QED BY <1>1, <1>2, <1>3, Steps DEF SendToRemote, SendToLocal, Send, vars

LEMMA StepOwnFiles == TypeOK /\ OwnFiles /\ [Next]_vars => OwnFiles'
<1> SUFFICES ASSUME TypeOK, OwnFiles, [Next]_vars PROVE OwnFiles'
  OBVIOUS
<1>1. own \subseteq Artifact
  BY DEF TypeOK
<1>2. ASSUME NEW s \in Saver, Step(s) PROVE OwnFiles'
  <2>1. UNCHANGED <<run, writing>> /\ own' \subseteq own
        /\ \A a \in Artifact : file'[<<Local, a>>] = file[<<Local, a>>] \/ a \notin own'
    BY <1>2, SaverWork DEF Touches
  <2> QED BY <1>1, <2>1 DEF OwnFiles
<1>3. ASSUME NEW a \in Artifact, EngineBegins(a) \/ EngineEnds(a) PROVE OwnFiles'
  <2>1. ASSUME NEW b \in own' \ writing' PROVE file'[<<Local, b>>] = run'[b]
    <3>1. b \in Artifact
      BY <1>1, <1>3, <2>1 DEF EngineBegins, EngineEnds
    <3>2. CASE b = a
      BY <1>3, <2>1, <3>2, EngineStep
    <3>3. CASE b # a
      <4>1. b \in own \ writing /\ run'[b] = run[b]
            /\ file'[<<Local, b>>] = file[<<Local, b>>]
        BY <1>3, <2>1, <3>1, <3>3, EngineStep
      <4> QED BY <4>1 DEF OwnFiles
    <3> QED BY <3>2, <3>3
  <2> QED BY <2>1 DEF OwnFiles
<1>4. CASE UNCHANGED <<disk, engine>>
  BY <1>4 DEF OwnFiles
<1> QED BY <1>2, <1>3, <1>4, Steps DEF SendToRemote, SendToLocal, Send, vars

\* A remote file changes only while the one request that makes it is carried out.
LEMMA RemoteStays ==
    ASSUME TypeOK, Unsaved, NEW s \in Saver, Step(s), NEW a \in Artifact, NEW p \in Protocol
    PROVE  \/ file'[<<p, a>>] = file[<<p, a>>]
           \/ /\ work[s] # Idle /\ work[s].message = SaveToRemote(a, p)
              /\ work[s].at \in {"copy", "create", "copying"}
              /\ file[<<p, a>>] \in {NoFile, Torn}
<1>1. SUFFICES ASSUME work[s] # Idle, work[s].message = SaveToRemote(a, p),
                      work[s].at \in {"copy", "create", "copying"}
               PROVE  file[<<p, a>>] \in {NoFile, Torn}
  BY SaverWork DEF Touches
<1>2. Absent(work[s].message)
  BY <1>1 DEF Unsaved, SaveToRemote
<1> QED BY <1>1, <1>2 DEF Absent, RemotePath, SaveToRemote

\* What is at the remote path of a request to store.
LEMMA AbsentRequest ==
    ASSUME NEW m \in Message, m.op = "SaveToRemote"
    PROVE  /\ m = SaveToRemote(m.artifact, m.protocol)
           /\ m.artifact \in Artifact /\ m.protocol \in Protocol
           /\ Absent(m) <=> file[<<m.protocol, m.artifact>>] \in {NoFile, Torn}
           /\ Absent(m)' <=> file'[<<m.protocol, m.artifact>>] \in {NoFile, Torn}
<1> QED BY DEF Message, SaveToRemote, Absent, RemotePath

LEMMA StepUnsaved ==
    TypeOK /\ Requests /\ Once /\ Unsaved /\ [Next]_vars => Unsaved'
<1> SUFFICES ASSUME TypeOK, Requests, Once, Unsaved, [Next]_vars PROVE Unsaved'
  OBVIOUS
<1>1. \A t \in Saver : Waiting(t) \subseteq Message
  BY InType DEF TypeOK, Waiting
<1>2. \A b \in Artifact : saved[b] \in Nat /\ run[b] \in Nat /\ saved[b] <= run[b]
  BY Places DEF TypeOK, Requests
<1>3. ASSUME NEW s \in Saver, Step(s) PROVE Unsaved'
  <2>1. \A t \in Saver : t # s => Waiting(t)' = Waiting(t) /\ Keeps(t, work'[t])
    BY <1>3, SaverMessages, SaverWork DEF Others
  <2>2. Waiting(s)' \subseteq Waiting(s)
    BY <1>3, SaverMessages
  <2>3. ASSUME NEW b \in Artifact, NEW p \in Protocol, p > saved'[b]
        PROVE  file'[<<p, b>>] \in {NoFile, Torn}
    <3>1. p > saved[b] /\ file[<<p, b>>] \in {NoFile, Torn}
      BY <1>3, <2>3, SaverWork DEF Unsaved
    <3>2. ~(work[s] # Idle /\ work[s].message = SaveToRemote(b, p))
      BY <1>2, <3>1, Places DEF Requests, Working, SaveToRemote
    <3> QED BY <1>3, <3>1, <3>2, RemoteStays
  <2>4. ASSUME NEW t \in Saver, NEW m \in Waiting(t)', m.op = "SaveToRemote"
        PROVE  Absent(m)'
    <3>1. m \in Waiting(t) /\ m \in Message
      BY <1>1, <2>1, <2>2, <2>4
    <3>2. Absent(m) /\ m \notin Working(s)
      BY <2>4, <3>1 DEF Unsaved, Once
    <3>3. file'[<<m.protocol, m.artifact>>] = file[<<m.protocol, m.artifact>>]
      BY <1>3, <2>4, <3>1, <3>2, RemoteStays, AbsentRequest DEF Working
    <3> QED BY <2>4, <3>1, <3>2, <3>3, AbsentRequest
  <2>5. ASSUME NEW t \in Saver, t # s, work'[t] # Idle,
               work'[t].message.op = "SaveToRemote", work'[t].at # "copied"
        PROVE  file'[RemotePath(work'[t].message)] \in {NoFile, Torn}
    <3>1. PICK m \in Message : m = work[t].message /\ work[t] # Idle
      BY <2>1, <2>5, WorkOf DEF Keeps
    <3>2. work'[t].message = m /\ m.op = "SaveToRemote" /\ work[t].at # "copied"
      BY <2>1, <2>5, <3>1 DEF Keeps, Same
    <3>3. Absent(m) /\ m \notin Working(s)
      <4>1. m \in Working(t)
        BY <3>1 DEF Working
      <4> QED BY <2>5, <3>1, <3>2, <4>1 DEF Unsaved, Once
    <3>4. file'[<<m.protocol, m.artifact>>] = file[<<m.protocol, m.artifact>>]
      BY <1>3, <3>2, <3>3, RemoteStays, AbsentRequest DEF Working
    <3> QED BY <3>2, <3>3, <3>4 DEF Absent, RemotePath
  <2>6. ASSUME work'[s] # Idle, work'[s].message.op = "SaveToRemote", work'[s].at # "copied"
        PROVE  file'[RemotePath(work'[s].message)] \in {NoFile, Torn}
    <3>1. CASE Take(s)
      <4>1. PICK m \in Message : m = Head(mailbox[s]) /\ m \in Waiting(s)
        BY <3>1, TakeWork, TakeMail DEF Waiting
      <4>2. work'[s].message = m /\ m.op = "SaveToRemote" /\ file' = file
        BY <2>6, <3>1, <4>1, TakeWork DEF Take
      <4>3. Absent(m)
        BY <4>1, <4>2 DEF Unsaved
      <4> QED BY <4>2, <4>3 DEF Absent
    <3>2. CASE ~Take(s)
      <4>1. Found(s) \/ Replace(s) \/ Open(s)
        BY <1>3, <2>6, <3>2, EndWork, WriteWork DEF Step, GoesOn, Advances
      <4>2. work[s] # Idle /\ work[s].at # "copied" /\ work'[s].message = work[s].message
        BY <4>1, FoundWork, ReplaceWork, OpenWork DEF Advances
      <4>3. PICK m \in Message : m = work[s].message /\ m.op = "SaveToRemote"
        BY <2>6, <4>2, WorkOf
      <4>4. file' \in {file, [file EXCEPT ![Destination(m)] = NoFile],
                       [file EXCEPT ![Destination(m)] = Torn]}
        BY <4>1, <4>3, FoundWork, ReplaceWork, OpenWork
      <4>5. Destination(m) = RemotePath(m) /\ RemotePath(m) \in Place
        BY <4>3, Places
      <4>6. Absent(m)
        BY <4>2, <4>3 DEF Unsaved
      <4>7. file'[RemotePath(m)] \in {NoFile, Torn}
        BY <4>4, <4>5, <4>6 DEF Absent, TypeOK
      <4> QED BY <4>2, <4>3, <4>7
    <3> QED BY <3>1, <3>2
  <2>7. \A b \in Artifact : \A p \in Protocol :
           p > saved'[b] => file'[<<p, b>>] \in {NoFile, Torn}
    BY <2>3
  <2>8. \A t \in Saver : \A m \in Waiting(t)' : m.op = "SaveToRemote" => Absent(m)'
    BY <2>4
  <2>9. \A t \in Saver : work'[t] # Idle =>
           (work'[t].message.op = "SaveToRemote" /\ work'[t].at # "copied"
               => file'[RemotePath(work'[t].message)] \in {NoFile, Torn})
    BY <2>5, <2>6
  <2> QED BY <2>7, <2>8, <2>9 DEF Unsaved, Absent, RemotePath
<1>4. ASSUME NEW s \in Saver, NEW a \in Artifact, SendToRemote(s, a) PROVE Unsaved'
  <2> DEFINE m == SaveToRemote(a, run[a])
  <2>1. /\ m \in Message /\ Send(s, m) /\ saved[a] < run[a] /\ UNCHANGED <<file, work>>
        /\ saved' = [saved EXCEPT ![a] = run[a]]
    BY <1>4, SendTypes DEF SendToRemote, Send
  <2>2. Absent(m)
    BY <1>2, <2>1 DEF Unsaved, Absent, SaveToRemote, RemotePath, Message
  <2>3. \A t \in Saver : Waiting(t)' \subseteq Waiting(t) \union {m}
    BY <2>1, SendMessages
  <2>4. \A b \in Artifact : saved'[b] \in Nat /\ saved[b] <= saved'[b]
    BY <1>2, <2>1 DEF TypeOK
  <2>5. \A b \in Artifact : \A p \in Protocol : p > saved'[b] => p > saved[b]
    BY <1>2, <2>4, Places
  <2> HIDE DEF m
  <2> QED BY <2>1, <2>2, <2>3, <2>5 DEF Unsaved, Absent
<1>5. ASSUME NEW s \in Saver, NEW a \in Artifact, NEW p \in Protocol, SendToLocal(s, a, p)
      PROVE  Unsaved'
  <2> DEFINE m == SaveToLocal(a, p)
  <2>1. /\ m \in Message /\ Send(s, m) /\ UNCHANGED <<file, work, saved>>
        /\ m.op # "SaveToRemote"
    BY <1>5, SendTypes DEF SendToLocal, Send, SaveToLocal
  <2>2. \A t \in Saver : Waiting(t)' \subseteq Waiting(t) \union {m}
    BY <2>1, SendMessages
  <2> HIDE DEF m
  <2> QED BY <2>1, <2>2 DEF Unsaved, Absent
<1>6. ASSUME NEW a \in Artifact, EngineBegins(a) \/ EngineEnds(a) PROVE Unsaved'
  <2>1. /\ \A t \in Saver : Waiting(t)' = Waiting(t) /\ Keeps(t, work'[t])
        /\ \A b \in Artifact : \A p \in Protocol : file'[<<p, b>>] = file[<<p, b>>]
        /\ saved' = saved
    BY <1>6, EngineStep, EngineMessages
  <2>2. ASSUME NEW m \in Message, m.op = "SaveToRemote", Absent(m) PROVE Absent(m)'
    BY <2>1, <2>2, AbsentRequest
  <2>3. ASSUME NEW t \in Saver, work'[t] # Idle,
               work'[t].message.op = "SaveToRemote", work'[t].at # "copied"
        PROVE  file'[RemotePath(work'[t].message)] \in {NoFile, Torn}
    <3>1. PICK m \in Message : m = work[t].message /\ work[t] # Idle
      BY <2>1, <2>3, WorkOf DEF Keeps
    <3>2. work'[t].message = m /\ m.op = "SaveToRemote" /\ work[t].at # "copied"
      BY <2>1, <2>3, <3>1 DEF Keeps, Same
    <3>3. Absent(m)
      BY <3>1, <3>2 DEF Unsaved
    <3> QED BY <2>2, <3>2, <3>3 DEF Absent
  <2>4. \A t \in Saver : work'[t] # Idle =>
           (work'[t].message.op = "SaveToRemote" /\ work'[t].at # "copied"
               => file'[RemotePath(work'[t].message)] \in {NoFile, Torn})
    BY <2>3
  <2>5. \A t \in Saver : \A m \in Waiting(t)' : m.op = "SaveToRemote" => Absent(m)'
    BY <1>1, <2>1, <2>2 DEF Unsaved
  <2>6. \A b \in Artifact : \A p \in Protocol :
           p > saved'[b] => file'[<<p, b>>] \in {NoFile, Torn}
    BY <2>1 DEF Unsaved
  <2> QED BY <2>4, <2>5, <2>6 DEF Unsaved, Absent, RemotePath
<1>7. CASE UNCHANGED vars
  <2>1. \A t \in Saver : Waiting(t)' = Waiting(t)
    BY <1>7 DEF vars, Waiting, In
  <2> QED BY <1>7, <2>1 DEF vars, Unsaved, Absent
<1> QED BY <1>3, <1>4, <1>5, <1>6, <1>7, Steps

-----------------------------------------------------------------------------
(* What was copied is what was to be copied                                 *)

\* The message of a saver that goes on is the same for a step, and its paths.
LEMMA MessageOf ==
    ASSUME TypeOK, NEW t \in Saver, work[t] # Idle
    PROVE  \E m \in Message, a \in Artifact, p \in Protocol :
              /\ m = work[t].message /\ m.artifact = a /\ m.protocol = p
              /\ LocalPath(m) = <<Local, a>> /\ RemotePath(m) = <<p, a>>
              /\ m.op \in {"SaveToRemote", "SaveToLocal"}
<1>1. work[t].message \in Message
  BY WorkOf
<1> QED BY <1>1, Places DEF Message

\* A whole file in the remote store is for good.
LEMMA WholeStays ==
    ASSUME TypeOK, Unsaved, NEW s \in Saver, Step(s), NEW a \in Artifact, NEW p \in Protocol,
           file[<<p, a>>] = p
    PROVE  file'[<<p, a>>] = p
<1>1. p # NoFile /\ p # Torn
  BY Places
<1> QED BY <1>1, RemoteStays

LEMMA KeepsStoring ==
    ASSUME TypeOK, NEW t \in Saver, Keeps(t, work'[t]), Storing(t),
           work[t] # Idle /\ Genuine(t)' => Genuine(t),
           \A a \in Artifact : \A p \in Protocol :
              file[<<p, a>>] = p => file'[<<p, a>>] = p
    PROVE  Storing(t)'
<1> SUFFICES ASSUME work'[t] # Idle, Genuine(t)'
             PROVE  /\ work'[t].at = "copying" => work'[t].read = work'[t].message.protocol
                    /\ work'[t].at = "copied" =>
                          file'[RemotePath(work'[t].message)] = work'[t].message.protocol
  BY DEF Storing, RemotePath
<1>1. work[t] # Idle /\ Same(t, work'[t]) /\ Genuine(t)
  BY DEF Keeps
<1>2. PICK m \in Message, a \in Artifact, p \in Protocol :
         m = work[t].message /\ m.protocol = p /\ RemotePath(m) = <<p, a>>
  BY <1>1, MessageOf
<1>3. /\ work'[t].message = m /\ work'[t].at = work[t].at /\ work'[t].read = work[t].read
  BY <1>1, <1>2 DEF Same
<1>4. /\ work[t].at = "copying" => work[t].read = p
      /\ work[t].at = "copied" => file[<<p, a>>] = p
  BY <1>1, <1>2 DEF Storing
<1> QED BY <1>2, <1>3, <1>4

LEMMA OwnStoring ==
    ASSUME TypeOK, OwnFiles, NEW s \in Saver, Step(s), Storing(s)
    PROVE  Storing(s)'
<1> SUFFICES ASSUME work'[s] # Idle, Genuine(s)'
             PROVE  /\ work'[s].at = "copying" => work'[s].read = work'[s].message.protocol
                    /\ work'[s].at = "copied" =>
                          file'[RemotePath(work'[s].message)] = work'[s].message.protocol
  BY DEF Storing, RemotePath
<1>1. GoesOn(s)
  BY EndWork DEF Step
<1>2. CASE Take(s) \/ Found(s) \/ Replace(s)
  BY <1>2, TakeWork, FoundWork, ReplaceWork DEF Advances
<1>3. CASE Open(s) \/ Write(s)
  <2>1. work[s] # Idle /\ work'[s].message = work[s].message
    BY <1>3, OpenWork, WriteWork DEF Advances
  <2>2. PICK m \in Message, a \in Artifact, p \in Protocol :
           /\ m = work[s].message /\ m.protocol = p /\ m.artifact = a
           /\ LocalPath(m) = <<Local, a>> /\ RemotePath(m) = <<p, a>>
    BY <2>1, MessageOf
  <2>3. /\ own' \subseteq own /\ UNCHANGED <<run, writing>>
    BY SaverWork DEF Touches
  <2>4. m.op = "SaveToRemote" /\ a \in own \ writing /\ p = run[a] /\ Genuine(s)
    BY <2>1, <2>2, <2>3 DEF Genuine
  <2>5. file[Origin(m)] = p /\ Destination(m) = <<p, a>> /\ <<p, a>> \in Place
    <3>1. file[<<Local, a>>] = p
      BY <2>4 DEF OwnFiles
    <3> QED BY <2>2, <2>4, <3>1, Places
  <2>6. CASE Open(s)
    BY <2>1, <2>2, <2>5, <2>6, OpenWork DEF Advances
  <2>7. CASE Write(s)
    <3>1. work[s].at = "copying" /\ work'[s].at = "copied" /\ work[s].read = p
      BY <2>1, <2>2, <2>4, <2>7, WriteWork DEF Advances, Storing
    <3>2. file' = [file EXCEPT ![<<p, a>>] = p]
      BY <2>2, <2>4, <2>5, <2>7, <3>1, WriteWork
    <3>3. file'[<<p, a>>] = p
      BY <2>5, <3>2 DEF TypeOK
    <3> QED BY <2>1, <2>2, <3>1, <3>3
  <2> QED BY <1>3, <2>6, <2>7
<1> QED BY <1>1, <1>2, <1>3 DEF GoesOn

LEMMA StepStoring ==
    TypeOK /\ Requests /\ Unsaved /\ OwnFiles /\ (\A t \in Saver : Storing(t)) /\ [Next]_vars
        => \A t \in Saver : Storing(t)'
<1> SUFFICES ASSUME TypeOK, Requests, Unsaved, OwnFiles, \A t \in Saver : Storing(t),
                    [Next]_vars, NEW t \in Saver
             PROVE  Storing(t)'
  OBVIOUS
<1>1. ASSUME NEW s \in Saver, Step(s), t # s PROVE Storing(t)'
  <2>1. Keeps(t, work'[t]) /\ own' \subseteq own /\ UNCHANGED <<run, writing>>
    BY <1>1, SaverWork DEF Others, Touches
  <2>2. work[t] # Idle /\ Genuine(t)' => Genuine(t)
    BY <2>1 DEF Genuine, Keeps, Same
  <2> QED BY <1>1, <2>1, <2>2, WholeStays, KeepsStoring
<1>2. ASSUME NEW a \in Artifact, EngineBegins(a) \/ EngineEnds(a) PROVE Storing(t)'
  <2>1. /\ Keeps(t, work'[t])
        /\ \A b \in Artifact : \A p \in Protocol : file'[<<p, b>>] = file[<<p, b>>]
    BY <1>2, EngineStep
  <2>2. ASSUME work[t] # Idle, Genuine(t)' PROVE Genuine(t)
    <3>1. PICK m \in Message, b \in Artifact, p \in Protocol :
             m = work[t].message /\ m.protocol = p /\ m.artifact = b
      BY <2>2, MessageOf
    <3>2. /\ work'[t].message = m /\ m.op = "SaveToRemote"
          /\ b \in own' /\ b \notin writing' /\ p = run'[b]
      BY <2>1, <2>2, <3>1 DEF Genuine, Keeps, Same
    <3>3. p <= saved[b]
      BY <2>2, <3>1, <3>2 DEF Requests, Working
    <3>4. CASE b = a
      <4>1. a \in writing /\ run' = run
        BY <1>2, <3>2, <3>4, EngineStep
      <4>2. saved[a] < run[a] /\ saved[a] \in Nat /\ run[a] \in Nat
        BY <4>1, Places DEF Requests, TypeOK
      <4> QED BY <3>2, <3>3, <3>4, <4>1, <4>2
    <3>5. CASE b # a
      BY <1>2, <3>1, <3>2, <3>5, EngineStep DEF Genuine
    <3> QED BY <3>4, <3>5
  <2> QED BY <2>1, <2>2, KeepsStoring
<1>3. CASE UNCHANGED <<work, disk, engine>>
  BY <1>3 DEF Storing, Genuine
<1> QED BY <1>1, <1>2, <1>3, OwnStoring, Steps DEF SendToRemote, SendToLocal, Send, vars

LEMMA StepFetching ==
    TypeOK /\ Unsaved /\ (\A t \in Saver : Fetching(t)) /\ [Next]_vars
        => \A t \in Saver : Fetching(t)'
<1> SUFFICES ASSUME TypeOK, Unsaved, \A t \in Saver : Fetching(t),
                    [Next]_vars, NEW t \in Saver
             PROVE  Fetching(t)'
  OBVIOUS
<1>1. ASSUME work[t] # Idle, Same(t, work'[t]),
             \A a \in Artifact : \A p \in Protocol :
                file[<<p, a>>] = p => file'[<<p, a>>] = p,
             \A a \in Artifact :
                \/ file'[<<Local, a>>] = file[<<Local, a>>]
                \/ work[t].message.artifact = a => ~work'[t].undisturbed
      PROVE  Fetching(t)'
  <2>1. PICK m \in Message, a \in Artifact, p \in Protocol :
           /\ m = work[t].message /\ m.protocol = p /\ m.artifact = a
           /\ LocalPath(m) = <<Local, a>> /\ RemotePath(m) = <<p, a>>
    BY <1>1, MessageOf
  <2>2. /\ work'[t].message = m /\ work'[t].at = work[t].at /\ work'[t].read = work[t].read
        /\ work'[t].stored = work[t].stored
        /\ work'[t].undisturbed =>
              work[t].undisturbed /\ file'[<<Local, a>>] = file[<<Local, a>>]
    BY <1>1, <2>1 DEF Same
  <2>3. SUFFICES ASSUME m.op = "SaveToLocal", work[t].stored
                 PROVE  /\ file'[<<p, a>>] = p
                        /\ work[t].at = "copying" => work[t].read = p
                        /\ work[t].at = "copied" /\ work'[t].undisturbed =>
                              file'[<<Local, a>>] = p
    BY <2>1, <2>2 DEF Fetching, LocalPath, RemotePath
  <2>4. /\ file[<<p, a>>] = p
        /\ work[t].at = "copying" => work[t].read = p
        /\ work[t].at = "copied" /\ work[t].undisturbed => file[<<Local, a>>] = p
    BY <1>1, <2>1, <2>3 DEF Fetching
  <2> QED BY <1>1, <2>2, <2>4
<1>2. ASSUME NEW s \in Saver, Step(s), t # s PROVE Fetching(t)'
  <2>1. Keeps(t, work'[t]) /\ Touches(s)
    BY <1>2, SaverWork DEF Others
  <2>2. CASE work[t] = Idle
    BY <2>1, <2>2 DEF Keeps, Fetching
  <2>3. CASE work[t] # Idle
    <3>1. \A a \in Artifact :
             \/ file'[<<Local, a>>] = file[<<Local, a>>]
             \/ work[t].message.artifact = a => ~work'[t].undisturbed
      BY <1>2, <2>1, <2>3 DEF Touches
    <3> QED BY <1>1, <1>2, <2>1, <2>3, <3>1, WholeStays DEF Keeps
  <2> QED BY <2>2, <2>3
<1>3. ASSUME NEW a \in Artifact, EngineBegins(a) \/ EngineEnds(a) PROVE Fetching(t)'
  <2>1. /\ Keeps(t, work'[t])
        /\ \A b \in Artifact : \A p \in Protocol : file'[<<p, b>>] = file[<<p, b>>]
        /\ \A b \in Artifact :
              \/ file'[<<Local, b>>] = file[<<Local, b>>]
              \/ work[t] # Idle /\ work[t].message.artifact = b => ~work'[t].undisturbed
    BY <1>3, EngineStep
  <2>2. CASE work[t] = Idle
    BY <2>1, <2>2 DEF Keeps, Fetching
  <2>3. CASE work[t] # Idle
    BY <1>1, <2>1, <2>3 DEF Keeps
  <2> QED BY <2>2, <2>3
<1>4. ASSUME Step(t) PROVE Fetching(t)'
  <2> SUFFICES ASSUME work'[t] # Idle, work'[t].message.op = "SaveToLocal", work'[t].stored
               PROVE  /\ file'[RemotePath(work'[t].message)] = work'[t].message.protocol
                      /\ work'[t].at = "copying" => work'[t].read = work'[t].message.protocol
                      /\ work'[t].at = "copied" /\ work'[t].undisturbed =>
                            file'[LocalPath(work'[t].message)] = work'[t].message.protocol
    BY DEF Fetching, LocalPath, RemotePath
  <2>1. GoesOn(t)
    BY <1>4, EndWork DEF Step
  <2>2. CASE Take(t)
    <3>1. PICK m \in Message : m = Head(mailbox[t])
      BY <2>2, TakeWork
    <3>2. /\ work'[t].message = m /\ work'[t].at = "validate"
          /\ file[RemotePath(m)] = m.protocol /\ file' = file
      BY <2>2, <3>1, TakeWork DEF Take
    <3> QED BY <3>2
  <2>3. CASE Found(t) \/ Replace(t) \/ Open(t) \/ Write(t)
    <3>1. /\ work[t] # Idle /\ work'[t].message = work[t].message
          /\ work'[t].stored = work[t].stored
      BY <2>3, FoundWork, ReplaceWork, OpenWork, WriteWork DEF Advances
    <3>2. PICK m \in Message, a \in Artifact, p \in Protocol :
             /\ m = work[t].message /\ m.protocol = p /\ m.artifact = a
             /\ LocalPath(m) = <<Local, a>> /\ RemotePath(m) = <<p, a>>
      BY <3>1, MessageOf
    <3>3. m.op = "SaveToLocal" /\ file[<<p, a>>] = p /\ <<Local, a>> \in Place
          /\ Origin(m) = <<p, a>> /\ Destination(m) = <<Local, a>>
      BY <3>1, <3>2, Places DEF Fetching
    <3>4. file'[<<p, a>>] = p
      BY <1>4, <3>3, WholeStays
    <3>5. CASE Found(t) \/ Replace(t)
      BY <3>1, <3>2, <3>4, <3>5, FoundWork, ReplaceWork DEF Advances
    <3>6. CASE Open(t)
      BY <3>1, <3>2, <3>3, <3>4, <3>6, OpenWork DEF Advances
    <3>7. CASE Write(t)
      <4>1. /\ work[t].at = "copying" /\ work'[t].at = "copied" /\ work[t].read = p
            /\ work'[t].undisturbed = work[t].undisturbed
        BY <3>1, <3>2, <3>3, <3>7, WriteWork DEF Advances, Fetching
      <4>2. work[t].undisturbed => file' = [file EXCEPT ![<<Local, a>>] = p]
        BY <3>2, <3>3, <3>7, <4>1, WriteWork
      <4>3. work[t].undisturbed => file'[<<Local, a>>] = p
        BY <3>3, <4>2 DEF TypeOK
      <4> QED BY <3>1, <3>2, <3>4, <4>1, <4>3
    <3> QED BY <2>3, <3>5, <3>6, <3>7
  <2> QED BY <2>1, <2>2, <2>3 DEF GoesOn
<1>5. CASE UNCHANGED <<work, disk, engine>>
  BY <1>5 DEF Fetching
<1> QED BY <1>2, <1>3, <1>4, <1>5, Steps DEF SendToRemote, SendToLocal, Send, vars

LEMMA StepAlone ==
    TypeOK /\ (\A t \in Saver : Alone(t)) /\ [Next]_vars => \A t \in Saver : Alone(t)'
<1> SUFFICES ASSUME TypeOK, \A t \in Saver : Alone(t), [Next]_vars, NEW t \in Saver
             PROVE  Alone(t)'
  OBVIOUS
<1> SUFFICES ASSUME work'[t] # Idle, work'[t].alone
             PROVE  /\ work'[t].open /\ \A u \in Saver : u # t => work'[u] = Idle
                    /\ work'[t].undisturbed =>
                          /\ work'[t].at \in {"copy", "create"} =>
                                file'[Origin(work'[t].message)] # NoFile
                          /\ work'[t].at = "create" =>
                                file'[Destination(work'[t].message)] = NoFile
  BY DEF Alone, Origin, Destination, LocalPath, RemotePath
<1>1. ASSUME NEW s \in Saver, Step(s), t # s PROVE FALSE
  <2>1. work[t] # Idle /\ work[t].alone
    BY <1>1, SaverWork DEF Others, Keeps, Same
  <2>2. work[s] = Idle
    BY <1>1, <2>1 DEF Alone
  <2>3. Take(s)
    BY <1>1, <2>2, EndWork, FoundWork, ReplaceWork, OpenWork, WriteWork
    DEF Step, GoesOn, Advances
  <2> QED BY <1>1, <2>1, <2>3, TakeWork
<1>2. ASSUME NEW a \in Artifact, EngineBegins(a) \/ EngineEnds(a)
      PROVE  /\ work'[t].open /\ \A u \in Saver : u # t => work'[u] = Idle
             /\ work'[t].undisturbed =>
                   /\ work'[t].at \in {"copy", "create"} =>
                         file'[Origin(work'[t].message)] # NoFile
                   /\ work'[t].at = "create" =>
                         file'[Destination(work'[t].message)] = NoFile
  <2>1. /\ \A u \in Saver : Keeps(u, work'[u])
        /\ work[t] # Idle => (work[t].message.artifact = a => ~work'[t].undisturbed)
        /\ \A b \in Artifact : \A p \in Protocol : file'[<<p, b>>] = file[<<p, b>>]
        /\ \A b \in Artifact : b # a => file'[<<Local, b>>] = file[<<Local, b>>]
    BY <1>2, EngineStep
  <2>2. work[t] # Idle /\ work[t].alone /\ Same(t, work'[t])
    BY <2>1 DEF Keeps, Same
  <2>3. \A u \in Saver : u # t => work[u] = Idle
    BY <2>2 DEF Alone
  <2>4. work'[t].open /\ \A u \in Saver : u # t => work'[u] = Idle
    BY <2>1, <2>2, <2>3 DEF Alone, Same, Keeps
  <2>5. PICK m \in Message, b \in Artifact, p \in Protocol :
           /\ m = work[t].message /\ m.protocol = p /\ m.artifact = b
           /\ LocalPath(m) = <<Local, b>> /\ RemotePath(m) = <<p, b>>
    BY <2>2, MessageOf
  <2>6. work'[t].message = m /\ work'[t].at = work[t].at
        /\ (work'[t].undisturbed => work[t].undisturbed /\ b # a)
    BY <2>1, <2>2, <2>5 DEF Same
  <2>7. work'[t].undisturbed =>
           file'[Origin(m)] = file[Origin(m)] /\ file'[Destination(m)] = file[Destination(m)]
    BY <2>1, <2>5, <2>6 DEF Origin, Destination
  <2> QED BY <2>2, <2>4, <2>5, <2>6, <2>7 DEF Alone
<1>3. ASSUME Step(t)
      PROVE  /\ work'[t].open /\ \A u \in Saver : u # t => work'[u] = Idle
             /\ work'[t].undisturbed =>
                   /\ work'[t].at \in {"copy", "create"} =>
                         file'[Origin(work'[t].message)] # NoFile
                   /\ work'[t].at = "create" =>
                         file'[Destination(work'[t].message)] = NoFile
  <2>1. GoesOn(t)
    BY <1>3, EndWork DEF Step
  <2>2. \A u \in Saver : u # t => Keeps(u, work'[u])
    BY <1>3, SaverWork DEF Others
  <2>3. CASE Take(t)
    BY <2>2, <2>3, TakeWork DEF Keeps
  <2>4. CASE Found(t) \/ Replace(t) \/ Open(t) \/ Write(t)
    <3>1. /\ work[t] # Idle /\ work[t].alone /\ work'[t].open = work[t].open
          /\ work'[t].message = work[t].message
      BY <2>4, FoundWork, ReplaceWork, OpenWork, WriteWork DEF Advances
    <3>2. work'[t].open /\ \A u \in Saver : u # t => work'[u] = Idle
      BY <2>2, <3>1 DEF Alone, Keeps
    <3>3. CASE Found(t)
      BY <3>1, <3>2, <3>3, FoundWork DEF Advances
    <3>4. CASE Replace(t)
      <4>1. /\ work[t].at = "copy" /\ work'[t].undisturbed = work[t].undisturbed
            /\ file' = [file EXCEPT ![Destination(work[t].message)] = NoFile]
        BY <3>4, ReplaceWork
      <4>2. PICK m \in Message : m = work[t].message
        BY <3>1, WorkOf
      <4>3. /\ Origin(m) \in Place /\ Destination(m) \in Place /\ Origin(m) # Destination(m)
        BY Places
      <4>4. work[t].undisturbed => file[Origin(m)] # NoFile
        BY <3>1, <4>1, <4>2 DEF Alone
      <4>5. file'[Origin(m)] = file[Origin(m)] /\ file'[Destination(m)] = NoFile
        BY <4>1, <4>2, <4>3 DEF TypeOK
      <4> QED BY <3>1, <3>2, <4>1, <4>2, <4>4, <4>5
    <3>5. CASE Open(t) \/ Write(t)
      BY <3>2, <3>5, OpenWork, WriteWork DEF Advances
    <3> QED BY <2>4, <3>3, <3>4, <3>5
  <2> QED BY <2>1, <2>3, <2>4 DEF GoesOn
<1>4. CASE UNCHANGED <<work, disk, engine>>
  BY <1>4 DEF Alone
<1> QED BY <1>1, <1>2, <1>3, <1>4, Steps DEF SendToRemote, SendToLocal, Send, vars

-----------------------------------------------------------------------------
(* What the answers tell                                                    *)

\* The ways in which a request ends.
LEMMA Outcomes ==
    ASSUME NEW s \in Saver, Ends(s)
    PROVE  /\ work[s] # Idle
           /\ \/ Missing(s) /\ End(s, "Done")
              \/ Done(s) /\ End(s, "Done")
              \/ Closed(s) /\ End(s, "closed")
              \/ /\ work[s].at \in {"copy", "create"} /\ End(s, Obstacle(s))
                 /\ Obstacle(s) \in {"vanished", "exists"}
              \/ crc[work[s].message.artifact] = "stale" /\ End(s, "checksum")
              \/ End(s, "broken")
<1>1. CASE Missing(s) \/ Done(s)
  BY <1>1 DEF Missing, Done, At
<1>2. CASE FindClosed(s) \/ BreakOff(s)
  BY <1>2 DEF FindClosed, BreakOff, Throw
<1>3. CASE FindObstacle(s)
  BY <1>3 DEF FindObstacle, Throw, At
<1>4. CASE FailChecksum(s)
  BY <1>4 DEF FailChecksum, Obstacle, At
<1> QED BY <1>1, <1>2, <1>3, <1>4 DEF Ends

LEMMA EndStores ==
    ASSUME IInv, NEW s \in Saver, Ends(s)
    PROVE  StoresOwnOutput'
<1>1. TypeOK /\ OwnFiles /\ Storing(s) /\ work[s] # Idle
  BY EndWork DEF IInv
<1>2. PICK m \in Message, a \in Artifact, p \in Protocol :
         /\ m = work[s].message /\ m.artifact = a /\ m.protocol = p
         /\ LocalPath(m) = <<Local, a>> /\ RemotePath(m) = <<p, a>>
  BY <1>1, MessageOf
<1>3. PICK o \in {"Done", "closed", "vanished", "exists", "checksum", "broken"} :
         End(s, o) /\ (o = "Done" => Missing(s) \/ Done(s))
  BY Outcomes
<1>4. /\ last'.message = m /\ last'.outcome = o /\ last'.got = file[Destination(m)]
      /\ last'.own = (a \in own \ writing /\ p = run[a])
  BY <1>1, <1>2, <1>3, EndResult
<1>5. SUFFICES ASSUME m.op = "SaveToRemote", o = "Done", a \in own \ writing, p = run[a]
               PROVE  file[Destination(m)] = p
  BY <1>2, <1>4 DEF StoresOwnOutput
<1>6. Origin(m) = <<Local, a>> /\ Destination(m) = <<p, a>> /\ p # NoFile
  BY <1>2, <1>5, Places
<1>7. file[<<Local, a>>] = p
  BY <1>1, <1>5 DEF OwnFiles
<1>8. ~Missing(s)
  BY <1>2, <1>6, <1>7 DEF Missing
<1>9. work[s].at = "copied"
  BY <1>1, <1>3, <1>5, <1>8, DoneWork
<1>10. Genuine(s)
  BY <1>2, <1>5 DEF Genuine
<1> QED BY <1>1, <1>2, <1>6, <1>9, <1>10 DEF Storing

LEMMA EndFetches ==
    ASSUME IInv, NEW s \in Saver, Ends(s)
    PROVE  CopiesWhatWasNamed'
<1>1. TypeOK /\ Fetching(s) /\ work[s] # Idle
  BY EndWork DEF IInv
<1>2. PICK m \in Message, a \in Artifact, p \in Protocol :
         /\ m = work[s].message /\ m.artifact = a /\ m.protocol = p
         /\ LocalPath(m) = <<Local, a>> /\ RemotePath(m) = <<p, a>>
  BY <1>1, MessageOf
<1>3. PICK o \in {"Done", "closed", "vanished", "exists", "checksum", "broken"} :
         End(s, o) /\ (o = "Done" => Missing(s) \/ Done(s))
  BY Outcomes
<1>4. /\ last'.message = m /\ last'.outcome = o /\ last'.got = file[Destination(m)]
      /\ last'.undisturbed = work[s].undisturbed /\ last'.stored = work[s].stored
  BY <1>1, <1>2, <1>3, EndResult
<1>5. SUFFICES ASSUME m.op = "SaveToLocal", o = "Done", work[s].undisturbed, work[s].stored
               PROVE  file[Destination(m)] = p
  BY <1>2, <1>4 DEF CopiesWhatWasNamed
<1>6. Origin(m) = <<p, a>> /\ Destination(m) = <<Local, a>> /\ p # NoFile
  BY <1>2, <1>5, Places
<1>7. file[<<p, a>>] = p
  BY <1>1, <1>2, <1>5 DEF Fetching
<1>8. ~Missing(s)
  BY <1>2, <1>6, <1>7 DEF Missing
<1>9. work[s].at = "copied"
  BY <1>1, <1>3, <1>5, <1>8, DoneWork
<1> QED BY <1>1, <1>2, <1>5, <1>6, <1>9 DEF Fetching

LEMMA EndAlone ==
    ASSUME IInv, NEW s \in Saver, Ends(s)
    PROVE  AloneNeverFails'
<1>1. TypeOK /\ Checksums /\ Alone(s) /\ work[s] # Idle
  BY EndWork DEF IInv
<1>2. PICK m \in Message : m = work[s].message
  BY <1>1, WorkOf
<1>3. PICK o \in {"Done", "closed", "vanished", "exists", "checksum", "broken"} :
         /\ End(s, o)
         /\ o = "closed" => Closed(s)
         /\ o \in {"vanished", "exists"} =>
               work[s].at \in {"copy", "create"} /\ o = Obstacle(s)
         /\ o = "checksum" => crc[m.artifact] = "stale"
  BY <1>2, Outcomes
<1>4. /\ last'.message = m /\ last'.outcome = o
      /\ last'.alone = (work[s].alone /\ work[s].undisturbed)
  BY <1>1, <1>2, <1>3, EndResult
<1>5. SUFFICES ASSUME work[s].alone, work[s].undisturbed
               PROVE  \/ o \in {"Done", "broken"}
                      \/ /\ o = "checksum"
                         /\ \E t \in Saver : m.artifact \in ArtifactsToLoad[t]
  BY <1>4 DEF AloneNeverFails
<1>6. /\ work[s].open
      /\ work[s].at \in {"copy", "create"} => file[Origin(m)] # NoFile
      /\ work[s].at = "create" => file[Destination(m)] = NoFile
  BY <1>1, <1>2, <1>5 DEF Alone
<1>7. o # "closed"
  BY <1>3, <1>6 DEF Closed
<1>8. o \notin {"vanished", "exists"}
  BY <1>2, <1>3, <1>6 DEF Obstacle
<1>9. CASE o = "checksum"
  <2>1. m.artifact \in Artifact /\ crc[m.artifact] # "none"
    BY <1>3, <1>9 DEF Message
  <2> QED BY <1>1, <1>9, <2>1 DEF Checksums
<1> QED BY <1>7, <1>8, <1>9

LEMMA StepProperties == IInv /\ [Next]_vars => Properties'
<1> SUFFICES ASSUME IInv, [Next]_vars PROVE Properties'
  OBVIOUS
<1>1. CASE last' = Idle
  BY <1>1 DEF Properties, StoresOwnOutput, CopiesWhatWasNamed, AloneNeverFails
<1>2. CASE last' = last
  BY <1>2 DEF IInv, Properties, StoresOwnOutput, CopiesWhatWasNamed, AloneNeverFails
<1>3. ASSUME NEW s \in Saver, Ends(s) PROVE Properties'
  BY <1>3, EndStores, EndFetches, EndAlone DEF Properties
<1> QED BY <1>1, <1>2, <1>3, Steps DEF Step, vars

\* Only savers change remote files.
LEMMA StepRemote ==
    ASSUME TypeOK, Unsaved, [Next]_vars, NEW a \in Artifact, NEW p \in Protocol,
           file[<<p, a>>] = p
    PROVE  file'[<<p, a>>] = p
<1>1. CASE \E s \in Saver : Step(s)
  BY <1>1, WholeStays
<1>2. ASSUME NEW s \in Saver, NEW b \in Artifact,
             SendToRemote(s, b) \/ \E q \in Protocol : SendToLocal(s, b, q)
      PROVE  file' = file
  BY <1>2 DEF SendToRemote, SendToLocal, Send
<1>3. ASSUME NEW b \in Artifact, EngineBegins(b) \/ EngineEnds(b)
      PROVE  file'[<<p, a>>] = file[<<p, a>>]
  <2>1. <<p, a>> # <<Local, b>> /\ <<p, a>> \in Place
    BY Places DEF Place
  <2>2. PICK c : file' = [file EXCEPT ![<<Local, b>>] = c]
    BY <1>3 DEF EngineBegins, EngineEnds, EngineWrites
  <2> QED BY <2>1, <2>2 DEF TypeOK
<1>4. CASE UNCHANGED vars
  BY <1>4 DEF vars
<1> QED BY <1>1, <1>2, <1>3, <1>4, Steps

-----------------------------------------------------------------------------
(* The theorems                                                             *)

LEMMA Invariance == Spec => []IInv
<1>1. IInv /\ [Next]_vars => IInv'
  <2> SUFFICES ASSUME IInv, [Next]_vars PROVE IInv'
    OBVIOUS
  <2>1. TypeOK' /\ Requests' /\ Once' /\ Unsaved' /\ OwnFiles' /\ Checksums'
    BY StepTypes, StepRequests, StepOnce, StepUnsaved, StepOwnFiles, StepChecksums DEF IInv
  <2>2. \A s \in Saver : Storing(s)' /\ Fetching(s)' /\ Alone(s)'
    BY StepStoring, StepFetching, StepAlone DEF IInv
  <2> QED BY <2>1, <2>2, StepProperties DEF IInv
<1> QED BY <1>1, InitInv, PTL DEF Spec

\* Messages, work, files and answers have their types; no saver gets a message
\* that is not one of an action.
THEOREM Types == Spec => []TypeOK
<1>1. IInv => TypeOK
  BY DEF IInv
<1> QED BY <1>1, Invariance, PTL

\* When an action is told that its output is stored, the store has it, whole and
\* from that run, unless another saver has touched the local file: any number of
\* savers may be copying at the same time, and close the file system for each
\* other.
THEOREM StoresTheOutput == Spec => []StoresOwnOutput
<1>1. IInv => StoresOwnOutput
  BY DEF IInv, Properties
<1> QED BY <1>1, Invariance, PTL

\* What the store has whole is never emptied, torn or replaced: a request to store
\* a run is made once, so the saver that writes a remote file is the first to.
THEOREM KeepsWhatIsStored == Spec => StoredForGood
<1>1. IInv /\ [Next]_vars =>
         [\A a \in Artifact : \A p \in Protocol :
             file[<<p, a>>] = p => file'[<<p, a>>] = p]_vars
  BY StepRemote DEF IInv
<1> QED BY <1>1, Invariance, PTL DEF Spec, StoredForGood

\* When an action is told that a file was copied to the local disk, the disk has
\* the file that was named, if the store had it whole and nobody else wrote to
\* the local one: no saver and no engine writes to what another one is reading.
THEOREM FetchesTheFile == Spec => []CopiesWhatWasNamed
<1>1. IInv => CopiesWhatWasNamed
  BY DEF IInv, Properties
<1> QED BY <1>1, Invariance, PTL

\* A request that is handled while nobody else is at work fails only if the file
\* system does, or because of a checksum file that an earlier one has left behind.
THEOREM FailsOnlyForOthers == Spec => []AloneNeverFails
<1>1. IInv => AloneNeverFails
  BY DEF IInv, Properties
<1> QED BY <1>1, Invariance, PTL

-----------------------------------------------------------------------------
(* Why the work ends                                                        *)

\* How far a request is from its end, and how much is left for saver s: its
\* messages count more than any step of the one it is at.
Distance == [validate |-> 5, copy |-> 4, create |-> 3, copying |-> 2, copied |-> 1]
Rest(w) == IF w = Idle THEN 0 ELSE Distance[w.at]
Left(s) == 6 * Len(mailbox[s]) + Rest(work[s])

\* A step of s leaves less for it to do, and only a new message leaves more.
Nearer(s) ==
    /\ Left(s) \in Nat
    /\ Step(s) => Left(s)' < Left(s)
    /\ \/ Left(s)' = Left(s)
       \/ Step(s)
       \/ asks' = asks + 1 /\ Left(s)' = Left(s) + 6

LEMMA RestBound ==
    ASSUME NEW w \in Work
    PROVE  w # Idle /\ Rest(w) = Distance[w.at] /\ Rest(w) \in 1..5
<1> QED BY IdleAssumption DEF Rest, Distance, Work

\* What others do to the marks of s does not take it back.
LEMMA RestKept ==
    ASSUME TypeOK, NEW s \in Saver, NEW w, Keeps(s, w)
    PROVE  Rest(w) = Rest(work[s])
<1>1. CASE work[s] = Idle
  BY <1>1 DEF Keeps
<1>2. CASE work[s] # Idle
  <2>1. w \in Work /\ work[s] \in Work /\ w.at = work[s].at
    BY <1>2, WorkOf DEF Keeps, Same
  <2> QED BY <2>1, RestBound
<1> QED BY <1>1, <1>2

\* A saver's own step: it takes a message, goes on to a later step, or ends.
LEMMA StepNearer ==
    ASSUME TypeOK, NEW s \in Saver, Step(s)
    PROVE  Left(s)' < Left(s)
<1>1. mailbox[s] \in Seq(Message) /\ Len(mailbox[s]) \in Nat
  <2>1. mailbox[s] \in Seq(Message)
    BY DEF TypeOK
  <2> QED BY <2>1, LenProperties
<1>2. CASE Take(s)
  <2>1. /\ work[s] = Idle /\ mailbox[s] # <<>> /\ work'[s] \in Work
        /\ mailbox'[s] = Tail(mailbox[s])
    BY <1>2, TakeWork, TakeMail
  <2>2. Len(mailbox'[s]) = Len(mailbox[s]) - 1 /\ Len(mailbox'[s]) \in Nat
    BY <1>1, <2>1, HeadTailProperties, LenProperties
  <2>3. Rest(work[s]) = 0 /\ Rest(work'[s]) \in 1..5
    BY <2>1, RestBound DEF Rest
  <2> QED BY <1>1, <2>2, <2>3 DEF Left, Rest
<1>3. ASSUME mailbox' = mailbox, work[s] # Idle,
             \/ work'[s] = Idle
             \/ work'[s] \in Work /\ Distance[work'[s].at] < Distance[work[s].at]
      PROVE  Left(s)' < Left(s)
  <2>1. Rest(work[s]) \in 1..5 /\ Rest(work[s]) = Distance[work[s].at]
    BY <1>3, WorkOf, RestBound
  <2>2. Rest(work'[s]) \in 0..5 /\ Rest(work'[s]) < Rest(work[s])
    BY <1>3, <2>1, RestBound DEF Rest
  <2>3. Left(s)' = 6 * Len(mailbox[s]) + Rest(work'[s])
    BY <1>3 DEF Left, Rest
  <2>4. Left(s) = 6 * Len(mailbox[s]) + Rest(work[s])
    BY DEF Left
  <2> QED BY <1>1, <2>1, <2>2, <2>3, <2>4
<1>4. CASE Ends(s)
  <2>1. work[s] # Idle /\ work'[s] = Idle
    BY <1>4, EndWork
  <2>2. mailbox' = mailbox
    BY <1>4
    DEF Ends, Missing, Done, FindClosed, FindObstacle, FailChecksum, BreakOff, Throw
  <2> QED BY <1>3, <2>1, <2>2
<1>5. CASE Found(s) \/ Replace(s) \/ Open(s) \/ Write(s)
  <2>1. mailbox' = mailbox /\ work[s] # Idle
    BY <1>5 DEF Found, Replace, Open, AtOpen, Write, At
  <2>2. \/ Advances(s, "copy") /\ work[s].at = "validate"
        \/ Advances(s, "create") /\ work[s].at = "copy"
        \/ Advances(s, "copying") /\ work[s].at \in {"copy", "create"}
        \/ Advances(s, "copied") /\ work[s].at = "copying"
    BY <1>5, FoundWork, ReplaceWork, OpenWork, WriteWork
  <2>3. work'[s] \in Work /\ Distance[work'[s].at] < Distance[work[s].at]
    BY <2>2 DEF Advances, Distance
  <2> QED BY <1>3, <2>1, <2>3
<1> QED BY <1>2, <1>4, <1>5 DEF Step, GoesOn

LEMMA StepNearerAll ==
    ASSUME TypeOK, [Next]_vars, NEW s \in Saver
    PROVE  Nearer(s)
<1>1. /\ mailbox[s] \in Seq(Message) /\ Len(mailbox[s]) \in Nat
      /\ Rest(work[s]) \in Nat
  <2>1. mailbox[s] \in Seq(Message)
    BY DEF TypeOK
  <2>2. CASE work[s] = Idle
    BY <2>1, <2>2, LenProperties DEF Rest
  <2>3. CASE work[s] # Idle
    <3>1. Rest(work[s]) \in 1..5
      BY <2>3, WorkOf, RestBound
    <3> QED BY <2>1, <3>1, LenProperties
  <2> QED BY <2>2, <2>3
<1>2. Left(s) \in Nat
  BY <1>1 DEF Left
<1>3. ASSUME mailbox'[s] = mailbox[s], Keeps(s, work'[s])
      PROVE  Left(s)' = Left(s)
  BY <1>3, RestKept DEF Left, Rest
<1>4. ASSUME NEW t \in Saver, NEW m \in Message, Send(t, m)
      PROVE  Left(s)' = Left(s) \/ (asks' = asks + 1 /\ Left(s)' = Left(s) + 6)
  <2>1. work' = work /\ asks' = asks + 1
    BY <1>4 DEF Send
  <2>2. CASE t # s
    <3>1. mailbox'[s] = mailbox[s]
      BY <1>4, <2>2, SendWork
    <3> QED BY <1>3, <2>1, <3>1, SameWork
  <2>3. CASE t = s
    <3>1. mailbox'[s] = Append(mailbox[s], m)
      BY <1>4, <2>3, SendWork
    <3>2. Len(mailbox'[s]) = Len(mailbox[s]) + 1
      BY <1>1, <3>1, AppendProperties
    <3>3. Left(s)' = 6 * Len(mailbox'[s]) + Rest(work[s])
      BY <2>1 DEF Left, Rest
    <3> QED BY <1>1, <2>1, <3>2, <3>3 DEF Left
  <2> QED BY <2>2, <2>3
<1>5. \/ Left(s)' = Left(s)
      \/ Step(s)
      \/ asks' = asks + 1 /\ Left(s)' = Left(s) + 6
  <2>1. ASSUME NEW t \in Saver, Step(t), t # s PROVE Left(s)' = Left(s)
    <3>1. mailbox'[s] = mailbox[s]
      BY <2>1, SaverWork, TakeMail
    <3>2. Keeps(s, work'[s])
      BY <2>1, SaverWork DEF Others
    <3> QED BY <1>3, <3>1, <3>2
  <2>2. ASSUME NEW t \in Saver, NEW a \in Artifact, SendToRemote(t, a)
        PROVE  Left(s)' = Left(s) \/ (asks' = asks + 1 /\ Left(s)' = Left(s) + 6)
    BY <1>4, <2>2, SendTypes DEF SendToRemote
  <2>3. ASSUME NEW t \in Saver, NEW a \in Artifact, NEW p \in Protocol, SendToLocal(t, a, p)
        PROVE  Left(s)' = Left(s) \/ (asks' = asks + 1 /\ Left(s)' = Left(s) + 6)
    BY <1>4, <2>3, SendTypes DEF SendToLocal
  <2>4. ASSUME NEW a \in Artifact, EngineBegins(a) \/ EngineEnds(a)
        PROVE  Left(s)' = Left(s)
    <3>1. PICK contents \in SUBSET Content : EngineWrites(a, contents)
      BY <2>4, EngineContents DEF EngineBegins, EngineEnds
    <3>2. Keeps(s, work'[s]) /\ mailbox' = mailbox
      BY <3>1, EngineWork DEF EngineWrites
    <3> QED BY <1>3, <3>2
  <2>5. CASE UNCHANGED vars
    BY <2>5, <1>3, SameWork DEF vars
  <2> QED BY <2>1, <2>2, <2>3, <2>4, <2>5, Steps
<1> QED BY <1>2, <1>5, StepNearer DEF Nearer

\* No saver ever goes back: each step of it ends its request or brings it nearer
\* to its end, nothing that others do sets it back, and a message is handled once,
\* even if its copy fails.  So a saver takes at most six steps for each message,
\* which is why its work ends if it goes on at all.
THEOREM WorkGetsLess == Spec => [][\A s \in Saver : Nearer(s)]_vars
<1>1. IInv /\ [Next]_vars => [\A s \in Saver : Nearer(s)]_vars
  BY StepNearerAll DEF IInv
<1> QED BY <1>1, Invariance, PTL DEF Spec
=============================================================================
