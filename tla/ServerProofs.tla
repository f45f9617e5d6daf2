---------------------------- MODULE ServerProofs ----------------------------
(***************************************************************************)
(* Proofs about Server, the start (Startup) and the accept loop            *)
(* (AcceptLoop), for every configuration file, every directory and every   *)
(* set of clients.                                                         *)
(***************************************************************************)
EXTENDS Server, FiniteSetTheorems, SequenceTheorems, TLAPS

\* The lines of the file before pos have been read.
Read(i) == i \in DOMAIN file /\ i < pos

Entered(i, k) == /\ Read(i) /\ Entry(file[i])
                 /\ file[i][1].names = {k} /\ file[i][2].text = dict[k]

\* What a plain file has put into dict so far: nothing that it does not say for
\* that key, and all that it has said.
DictFromFile ==
    Plain => /\ \A k \in KEYS : dict[k] # "" => \E i \in DOMAIN file : Entered(i, k)
             /\ \A i \in DOMAIN file : Read(i) /\ Entry(file[i])
                   => \A k \in file[i][1].names : dict[k] = file[i][2].text

\* Only the whole file decides how main() goes on; reading it does not abort.
ReadToTheEnd ==
    /\ stage # "reading" /\ Plain => pos > Len(file)
    /\ stage \notin {"reading", "aborted"} => pos > Len(file)

\* What the branch for TLS has made sure of, stage by stage.
Checked ==
    /\ stage \in {"bundling", "loading"} => secure
    /\ stage \in {"loading", "starting", "serving"} /\ secure
          => bundle.root_CAs # {}
    /\ stage \in {"starting", "serving"} /\ secure
          => Pair(bundle) /\ Broken \notin bundle.root_CAs
    /\ stage \in {"starting", "serving"} /\ ~secure
          => dict["connection type"] \in TcpNames

Disk == file \in Files /\ folder \in Folders

StartInv == Disk /\ StartTypeOK /\ DictFromFile /\ ReadToTheEnd /\ Checked

Handshaking == {p \in Peers : conn[p] = "handshaking"}

\* The loop waits for the TLS handshake of one client and no other.
LoopInv ==
    /\ loop \in {"accepting", "handshaking", "dead"}
    /\ backlog \in Seq(Peers)
    /\ conn \in [Peers -> {"none", "queued", "handshaking", "joined", "closed"}]
    /\ client \in [Peers -> {"willing", "mute", "reset"}]
    /\ IF loop = "handshaking" THEN \E p \in Peers : Handshaking = {p}
                               ELSE Handshaking = {}

IInv == StartInv /\ LoopInv

----------------------------------------------------------------------------
(* The configuration file.                                                 *)

\* There are five keys.
LEMMA KeysFinite == IsFiniteSet(KEYS)
<1>1. KEYS = {"path/to/certificates"} \cup {"password"}
             \cup {"client root CA subdir"} \cup {"connection type"} \cup {"port"}
  BY DEF KEYS
<1>2. IsFiniteSet({"path/to/certificates"})
  BY FS_Singleton
<1> QED
  BY <1>1, <1>2, FS_AddElement

\* The lines of the file are sequences of pieces.
LEMMA Lines ==
    ASSUME Disk, NEW i \in DOMAIN file
    PROVE  /\ i \in 1 .. Len(file) /\ file[i] \in Seq(Pieces)
           /\ Len(file) \in Nat
<1>1. file \in Seq(Seq(Pieces))
  BY FilesAssumption DEF Disk
<1> QED
  BY <1>1, ElementOfSeq, LenProperties

\* An entry names one key.
LEMMA EntryNames ==
    ASSUME Disk, NEW i \in DOMAIN file, Entry(file[i])
    PROVE  /\ \E k \in KEYS : file[i][1].names = {k}
           /\ file[i][1] \in Pieces /\ file[i][2] \in Pieces
           /\ DOMAIN file[i] = {1, 2}
<1>1. file[i] \in Seq(Pieces) /\ Len(file[i]) = 2
  BY Lines DEF Entry
<1>2. DOMAIN file[i] = 1 .. 2
  BY <1>1, LenProperties
<1>3. file[i][1] \in Pieces /\ file[i][2] \in Pieces
  BY <1>1, ElementOfSeq
<1>4. file[i][1].names \in SUBSET KEYS
  BY <1>3 DEF Pieces
<1>5. IsFiniteSet(file[i][1].names)
  BY <1>4, KeysFinite, FS_Subset
<1>7. Cardinality(file[i][1].names) = 1
  BY DEF Entry
<1>8. PICK k : file[i][1].names = {k}
  BY <1>5, <1>7, FS_Singleton
<1> QED
  BY <1>2, <1>3, <1>4, <1>8

\* Of an entry, the key is wanted unless it has a value, and its value is taken.
LEMMA EntryRead ==
    ASSUME Disk, NEW i \in DOMAIN file, Entry(file[i]),
           NEW k \in KEYS, file[i][1].names = {k}
    PROVE  /\ Wanted(file[i]) = IF dict[k] = "" THEN {k} ELSE {}
           /\ Fields(file[i]) = {2} /\ First(file[i]) = file[i][2]
<1>1. file[i][2] \in Pieces /\ DOMAIN file[i] = {1, 2}
  BY EntryNames
<1>2. Len(file[i]) = 2 /\ file[i][2].field /\ file[i][2].names = {}
  BY DEF Entry
<1>3. ASSUME NEW c \in KEYS
      PROVE  Mentions(file[i], c) <=> c = k
  BY <1>1, <1>2 DEF Mentions
<1>4. ASSUME NEW c \in KEYS
      PROVE  c \in Wanted(file[i]) <=> c = k /\ dict[k] = ""
  <2>1. Len(file[i]) > 1
    BY <1>2
  <2>2. c \in Wanted(file[i]) <=> Mentions(file[i], c) /\ dict[c] = ""
    BY <2>1, Zenon DEF Wanted
  <2> QED
    BY <1>3, <2>2
<1>5. Wanted(file[i]) = IF dict[k] = "" THEN {k} ELSE {}
  <2>1. Wanted(file[i]) \subseteq KEYS
    BY DEF Wanted
  <2> QED
    BY <1>4, <2>1
<1>6. 2 .. 2 = {2}
  OBVIOUS
<1>7. Fields(file[i]) = {2}
  BY <1>2, <1>6 DEF Fields
<1>8. (CHOOSE n \in {2} : \A j \in {2} : n <= j) = 2
  OBVIOUS
<1> QED
  BY <1>7, <1>8, <1>5 DEF First

\* Of a line without a colon nothing is wanted.
LEMMA NoColon ==
    ASSUME Disk, Plain, NEW i \in DOMAIN file, ~Entry(file[i])
    PROVE  Wanted(file[i]) = {}
BY DEF Plain, Wanted

----------------------------------------------------------------------------
(* Reading the file.                                                       *)

\* It holds when main() begins.
LEMMA StartInitial == StartInit => StartInv
<1> SUFFICES ASSUME StartInit PROVE StartInv
  OBVIOUS
<1>1. Disk
  BY DEF StartInit, Disk
<1>2. Len(file) \in Nat
  BY <1>1, FilesAssumption, LenProperties DEF Disk
<1>3. \A kind \in DOMAIN NoBundle : IsFiniteSet(NoBundle[kind])
  BY FS_EmptySet DEF NoBundle
<1>4. StartTypeOK
  <2>1. pos \in 1 .. Len(file) + 1
    <3>1. pos = 1
      BY DEF StartInit
    <3> QED
      BY <1>2, <3>1
  <2>2. DOMAIN dict = KEYS
    BY DEF StartInit
  <2> QED
    BY <1>3, <2>1, <2>2 DEF StartInit, StartTypeOK
<1>5. \A i \in DOMAIN file : ~Read(i)
  <2>1. \A i \in DOMAIN file : i \in 1 .. Len(file)
    BY <1>1, Lines
  <2>2. pos = 1
    BY DEF StartInit
  <2> QED
    BY <1>2, <2>1, <2>2 DEF Read
<1>6. DictFromFile
  BY <1>5 DEF StartInit, DictFromFile
<1> QED
  BY <1>1, <1>4, <1>6 DEF StartInit, StartInv, ReadToTheEnd, Checked

\* A line of a plain file is read for its key, and for no other, without
\* aborting.
LEMMA PlainLine ==
    ASSUME StartInv, ReadsLine, Plain
    PROVE  /\ stage' = stage /\ pos' = pos + 1
           /\ \A k \in KEYS :
                 \/ dict'[k] = dict[k]
                    /\ ~(Entry(file[pos]) /\ k \in file[pos][1].names)
                 \/ /\ Entry(file[pos]) /\ file[pos][1].names = {k}
                    /\ dict'[k] = file[pos][2].text
<1>1. pos \in DOMAIN file /\ Disk
  <2>1. Disk /\ file \in Seq(Seq(Pieces)) /\ pos \in 1 .. Len(file) + 1
    BY FilesAssumption DEF StartInv, Disk, StartTypeOK
  <2>2. Len(file) \in Nat /\ DOMAIN file = 1 .. Len(file)
    BY <2>1, LenProperties
  <2> QED
    BY <2>1, <2>2 DEF ReadsLine
<1>2. CASE ~Entry(file[pos])
  <2>1. Wanted(file[pos]) = {}
    BY <1>1, <1>2, NoColon
  <2> QED
    BY <1>2, <2>1 DEF ReadsLine
<1>3. CASE Entry(file[pos])
  <2>1. PICK k \in KEYS : file[pos][1].names = {k}
    BY <1>1, <1>3, EntryNames
  <2>2. /\ Wanted(file[pos]) = IF dict[k] = "" THEN {k} ELSE {}
        /\ Fields(file[pos]) = {2} /\ First(file[pos]) = file[pos][2]
    BY <1>1, <1>3, <2>1, EntryRead
  <2>3. dict[k] = ""
    <3>1. SUFFICES ASSUME dict[k] # "" PROVE FALSE
      OBVIOUS
    <3>2. PICK i \in DOMAIN file : Entered(i, k)
      BY <3>1 DEF StartInv, DictFromFile
    <3>3. i # pos
      BY <1>1, <3>2, Lines DEF Entered, Read
    <3> QED
      BY <1>1, <1>3, <2>1, <3>2, <3>3 DEF Plain, Entered
  <2>4. /\ stage' = stage /\ pos' = pos + 1
        /\ dict' = [c \in KEYS |-> IF c = k THEN file[pos][2].text ELSE dict[c]]
    BY <2>2, <2>3 DEF ReadsLine
  <2> QED
    BY <1>3, <2>1, <2>4
<1> QED
  BY <1>2, <1>3

\* A line is read.
LEMMA ReadStep == StartInv /\ ReadsLine => StartInv'
<1> SUFFICES ASSUME StartInv, ReadsLine PROVE StartInv'
  OBVIOUS
<1>1. /\ Disk /\ Disk' /\ Len(file) \in Nat /\ pos \in 1 .. Len(file)
      /\ DOMAIN file = 1 .. Len(file)
  <2>1. Disk /\ file \in Seq(Seq(Pieces)) /\ pos \in 1 .. Len(file) + 1
    BY FilesAssumption DEF StartInv, Disk, StartTypeOK
  <2>2. Len(file) \in Nat /\ DOMAIN file = 1 .. Len(file)
    BY <2>1, LenProperties
  <2> QED
    BY <2>1, <2>2 DEF ReadsLine, Disk
<1>2. UNCHANGED <<file, folder, secure, bundle>> /\ stage = "reading"
      /\ stage' \in {"reading", "aborted"} /\ pos' \in {pos, pos + 1}
  BY DEF ReadsLine
<1>3. StartTypeOK'
  <2>1. pos' \in 1 .. Len(file) + 1
    BY <1>1, <1>2
  <2>2. DOMAIN dict' = KEYS
    BY DEF ReadsLine, StartInv, StartTypeOK
  <2> QED
    BY <1>2, <2>1, <2>2 DEF StartInv, StartTypeOK
<1>4. Plain' = Plain
  BY <1>2 DEF Plain
<1>5. DictFromFile'
  <2> SUFFICES ASSUME Plain
               PROVE  /\ \A k \in KEYS : dict'[k] # "" =>
                            \E i \in DOMAIN file : Entered(i, k)'
                      /\ \A i \in DOMAIN file : Read(i)' /\ Entry(file[i])
                            => \A k \in file[i][1].names :
                                  dict'[k] = file[i][2].text
    BY <1>2, <1>4 DEF DictFromFile
  <2>1. /\ pos' = pos + 1
        /\ \A k \in KEYS :
              \/ dict'[k] = dict[k]
                 /\ ~(Entry(file[pos]) /\ k \in file[pos][1].names)
              \/ /\ Entry(file[pos]) /\ file[pos][1].names = {k}
                 /\ dict'[k] = file[pos][2].text
    BY PlainLine
  <2>2. ASSUME NEW i \in DOMAIN file
        PROVE  Read(i)' <=> Read(i) \/ i = pos
    BY <1>1, <1>2, <2>1 DEF Read
  <2>3. ASSUME NEW k \in KEYS, dict'[k] # ""
        PROVE  \E i \in DOMAIN file : Entered(i, k)'
    <3>1. CASE dict'[k] = dict[k]
      <4>1. PICK i \in DOMAIN file : Entered(i, k)
        BY <2>3, <3>1 DEF StartInv, DictFromFile
      <4> QED
        BY <1>2, <2>2, <3>1, <4>1 DEF Entered
    <3>2. CASE /\ Entry(file[pos]) /\ file[pos][1].names = {k}
               /\ dict'[k] = file[pos][2].text
      BY <1>1, <1>2, <2>2, <3>2 DEF Entered
    <3> QED
      BY <2>1, <3>1, <3>2
  <2>4. ASSUME NEW i \in DOMAIN file, Read(i)', Entry(file[i]),
               NEW k \in file[i][1].names
        PROVE  dict'[k] = file[i][2].text
    <3>1. PICK c \in KEYS : file[i][1].names = {c}
      BY <1>1, <2>4, EntryNames
    <3>2. k = c /\ k \in KEYS
      BY <3>1
    <3>3. CASE i = pos
      BY <2>1, <2>4, <3>2, <3>3
    <3>4. CASE i # pos
      <4>1. Read(i) /\ dict[k] = file[i][2].text
        BY <2>2, <2>4, <3>4 DEF StartInv, DictFromFile
      <4>2. ~(Entry(file[pos]) /\ file[pos][1].names = {k})
        BY <1>1, <2>4, <3>1, <3>2, <3>4 DEF Plain
      <4> QED
        BY <2>1, <3>2, <4>1, <4>2
    <3> QED
      BY <3>3, <3>4
  <2> QED
    BY <2>3, <2>4
<1>6. ReadToTheEnd'
  <2>1. CASE stage' = "reading"
    BY <2>1 DEF ReadToTheEnd
  <2>2. CASE stage' = "aborted"
    <3>1. ~Plain
      BY <1>2, <2>2, PlainLine
    <3> QED
      BY <1>4, <2>2, <3>1 DEF ReadToTheEnd
  <2> QED
    BY <1>2, <2>1, <2>2
<1>7. Checked'
  BY <1>2 DEF Checked
<1> QED
  BY <1>1, <1>3, <1>5, <1>6, <1>7 DEF StartInv

----------------------------------------------------------------------------
(* What follows the reading.                                               *)

\* What has been read stays.
LEMMA Kept ==
    ASSUME StartInv, UNCHANGED <<file, folder, pos, dict>>
    PROVE  /\ Disk' /\ DictFromFile'
           /\ pos' \in 1 .. (Len(file') + 1) /\ DOMAIN dict' = KEYS
           /\ stage \notin {"reading", "aborted"} => ReadToTheEnd'
<1>1. Disk' /\ pos' \in 1 .. (Len(file') + 1) /\ DOMAIN dict' = KEYS
  BY DEF StartInv, Disk, StartTypeOK
<1>2. Plain' = Plain /\ \A i \in DOMAIN file : Read(i)' = Read(i)
  BY DEF Plain, Read
<1>3. \A i \in DOMAIN file, k \in KEYS : Entered(i, k)' = Entered(i, k)
  BY <1>2 DEF Entered
<1>4. DictFromFile'
  BY <1>2, <1>3 DEF StartInv, DictFromFile
<1> QED
  BY <1>1, <1>2, <1>4 DEF StartInv, ReadToTheEnd

\* What was read is checked.
LEMMA ConfigureStep == StartInv /\ Configures => StartInv'
<1> SUFFICES ASSUME StartInv, Configures PROVE StartInv'
  OBVIOUS
<1>1. /\ UNCHANGED <<file, folder, pos, dict, bundle>>
      /\ stage = "reading" /\ pos > Len(file)
      /\ stage' \in {"bundling", "starting", "failed"}
      /\ secure' \in BOOLEAN
  BY DEF Configures, AsksForTls, StartInv, StartTypeOK
<1>2. /\ Disk' /\ DictFromFile'
      /\ pos' \in 1 .. (Len(file') + 1) /\ DOMAIN dict' = KEYS
  BY <1>1, Kept
<1>3. StartTypeOK'
  BY <1>1, <1>2 DEF StartInv, StartTypeOK
<1>4. ReadToTheEnd'
  BY <1>1 DEF ReadToTheEnd
<1>5. Checked'
  <2>1. CASE Valid
    BY <1>1, <2>1 DEF Configures, Valid, AsksForTls, Checked
  <2>2. CASE ~Valid
    BY <1>1, <2>2 DEF Configures, Checked
  <2> QED
    BY <2>1, <2>2
<1> QED
  BY <1>2, <1>3, <1>4, <1>5 DEF StartInv

\* The certificates are found, or they are not.
LEMMA BundleStep == StartInv /\ Bundles => StartInv'
<1> SUFFICES ASSUME StartInv, Bundles PROVE StartInv'
  OBVIOUS
<1>1. /\ UNCHANGED <<file, folder, pos, dict, secure>> /\ stage = "bundling"
      /\ stage' \in {"failed", "aborted", "loading"}
  BY DEF Bundles
<1>2. /\ Disk' /\ DictFromFile' /\ ReadToTheEnd'
      /\ pos' \in 1 .. (Len(file') + 1) /\ DOMAIN dict' = KEYS
  BY <1>1, Kept
<1>3. CASE UNCHANGED bundle /\ stage' \in {"failed", "aborted"}
  <2>1. StartTypeOK'
    BY <1>1, <1>2, <1>3 DEF StartInv, StartTypeOK
  <2>2. Checked'
    BY <1>3 DEF Checked
  <2> QED
    BY <1>2, <2>1, <2>2 DEF StartInv
<1>4. CASE /\ Complete /\ stage' = "loading"
           /\ \E c \in folder.certs, k \in folder.keys :
                 bundle' = [public_key |-> {c}, private_key |-> {k},
                            root_CAs |-> folder.root_CAs]
  <2>1. PICK c \in folder.certs, k \in folder.keys :
            bundle' = [public_key |-> {c}, private_key |-> {k},
                       root_CAs |-> folder.root_CAs]
    BY <1>4
  <2>2. IsFiniteSet({c}) /\ IsFiniteSet({k}) /\ IsFiniteSet(folder.root_CAs)
    BY FS_Singleton, FoldersAssumption DEF StartInv, Disk
  <2>3. \A kind \in DOMAIN NoBundle : IsFiniteSet(bundle'[kind])
    BY <2>1, <2>2 DEF NoBundle
  <2>4. StartTypeOK'
    BY <1>1, <1>2, <1>4, <2>3 DEF StartInv, StartTypeOK
  <2>5. Checked'
    BY <1>1, <1>4, <2>1 DEF Complete, Checked, StartInv
  <2> QED
    BY <1>2, <2>4, <2>5 DEF StartInv
<1> QED
  BY <1>3, <1>4 DEF Bundles

\* The certificates are loaded, and the server starts.
LEMMA LoadStep == StartInv /\ (Loads \/ Starts) => StartInv'
<1> SUFFICES ASSUME StartInv, Loads \/ Starts PROVE StartInv'
  OBVIOUS
<1>1. /\ UNCHANGED <<file, folder, pos, dict, secure, bundle>>
      /\ stage \in {"loading", "starting"}
      /\ stage' \in {"aborted", "failed", "starting", "serving", "returned"}
  BY DEF Loads, Starts
<1>2. /\ Disk' /\ DictFromFile' /\ ReadToTheEnd'
      /\ pos' \in 1 .. (Len(file') + 1) /\ DOMAIN dict' = KEYS
  BY <1>1, Kept
<1>3. StartTypeOK'
  BY <1>1, <1>2 DEF StartInv, StartTypeOK
<1>4. Pair(bundle)' <=> Pair(bundle)
  BY <1>1 DEF Pair
<1>5. CASE Loads
  <2>1. /\ stage = "loading"
        /\ stage' \in {"starting", "serving"} => /\ stage' = "starting"
                                                /\ Pair(bundle)
                                                /\ Broken \notin bundle.root_CAs
    BY <1>5 DEF Loads
  <2>2. secure /\ bundle.root_CAs # {}
    BY <2>1 DEF StartInv, Checked
  <2>3. Checked'
    BY <1>1, <1>4, <2>1, <2>2 DEF Checked
  <2> QED
    BY <1>2, <1>3, <2>3 DEF StartInv
<1>6. CASE Starts
  <2>1. stage = "starting" /\ stage' \in {"serving", "returned"}
    BY <1>6 DEF Starts
  <2>2. Checked'
    BY <1>1, <1>4, <2>1 DEF Checked, StartInv
  <2> QED
    BY <1>2, <1>3, <2>2 DEF StartInv
<1> QED
  BY <1>5, <1>6

\* Nothing that happens after the start changes what it has set up.
LEMMA Served ==
    ASSUME StartInv, UNCHANGED <<file, folder, pos, dict, secure, bundle>>,
           stage' = stage \/ (stage' = "returned" /\ stage = "serving")
    PROVE  StartInv'
<1>1. CASE stage' = stage
  BY <1>1, ZenonT(60) DEF StartInv, Disk, StartTypeOK, DictFromFile, Plain, Read, Entered,
     ReadToTheEnd, Checked, Pair
<1>2. CASE stage' = "returned" /\ stage = "serving"
  <2>1. /\ Disk' /\ DictFromFile' /\ ReadToTheEnd'
        /\ pos' \in 1 .. (Len(file') + 1) /\ DOMAIN dict' = KEYS
    BY <1>2, Kept
  <2>2. StartTypeOK'
    BY <1>2, <2>1 DEF StartInv, StartTypeOK
  <2>3. Checked'
    BY <1>2 DEF Checked
  <2> QED
    BY <2>1, <2>2, <2>3 DEF StartInv
<1> QED
  BY <1>1, <1>2

----------------------------------------------------------------------------
(* The accept loop.                                                        *)

\* What becomes of p, and with it of the set of those that are handshaking.
LEMMA Becoming ==
    ASSUME LoopInv, NEW p \in Peers,
           NEW what \in {"queued", "handshaking", "joined", "closed"},
           Accept!Becomes(p, what)
    PROVE  /\ conn' \in [Peers -> {"none", "queued", "handshaking", "joined",
                                   "closed"}]
           /\ Handshaking' = IF what = "handshaking" THEN Handshaking \cup {p}
                                                     ELSE Handshaking \ {p}
BY DEF LoopInv, Accept!Becomes, Handshaking

\* What the clients do leaves the loop where it is.
LEMMA ClientStep ==
    ASSUME LoopInv, NEW p \in Peers,
           Accept!Arrives(p) \/ Accept!Leaves(p) \/ Accept!GoesMute(p)
              \/ Accept!Resets(p)
    PROVE  LoopInv'
<1>1. CASE Accept!Arrives(p)
  <2>1. conn' \in [Peers -> {"none", "queued", "handshaking", "joined", "closed"}]
        /\ Handshaking' = Handshaking
    BY <1>1, Becoming DEF Accept!Arrives, Handshaking
  <2> QED
    BY <1>1, <2>1 DEF Accept!Arrives, LoopInv
<1>2. CASE Accept!Leaves(p)
  <2>1. conn' \in [Peers -> {"none", "queued", "handshaking", "joined", "closed"}]
        /\ Handshaking' = Handshaking
    BY <1>2, Becoming DEF Accept!Leaves, Handshaking
  <2> QED
    BY <1>2, <2>1 DEF Accept!Leaves, LoopInv
<1>3. CASE Accept!GoesMute(p) \/ Accept!Resets(p)
  BY <1>3 DEF Accept!GoesMute, Accept!Resets, Accept!Turns, LoopInv, Handshaking
<1> QED
  BY <1>1, <1>2, <1>3

\* The loop takes a connection, or goes on after the handshake of one.
LEMMA LoopStep ==
    ASSUME LoopInv, Accept!Loop
    PROVE  LoopInv'
<1>1. CASE Accept!AcceptFails
  BY <1>1 DEF Accept!AcceptFails, LoopInv, Handshaking
<1>2. ASSUME NEW p \in Peers, Accept!AcceptsTcp(p)
      PROVE  LoopInv'
  <2>1. /\ loop = "accepting" /\ backlog' \in Seq(Peers)
        /\ loop' \in {"accepting", "dead"} /\ client' = client
    BY <1>2 DEF Accept!AcceptsTcp, Accept!Accepts, LoopInv
  <2>2. PICK what \in {"joined", "closed"} : Accept!Becomes(p, what)
    BY <1>2 DEF Accept!AcceptsTcp, Accept!Joins
  <2>3. conn' \in [Peers -> {"none", "queued", "handshaking", "joined", "closed"}]
        /\ Handshaking' = Handshaking \ {p}
    BY <2>2, Becoming
  <2> QED
    BY <2>1, <2>3 DEF LoopInv
<1>3. ASSUME NEW p \in Peers, Accept!AcceptsSsl(p)
      PROVE  LoopInv'
  <2>1. /\ loop = "accepting" /\ backlog' \in Seq(Peers)
        /\ loop' = "handshaking" /\ client' = client
    BY <1>3 DEF Accept!AcceptsSsl, Accept!Accepts, LoopInv
  <2>2. conn' \in [Peers -> {"none", "queued", "handshaking", "joined", "closed"}]
        /\ Handshaking' = Handshaking \cup {p}
    BY <1>3, Becoming DEF Accept!AcceptsSsl
  <2> QED
    BY <2>1, <2>2 DEF LoopInv
<1>4. ASSUME NEW p \in Peers, Accept!HandshakeDone(p) \/ Accept!HandshakeFails(p)
      PROVE  LoopInv'
  <2>1. /\ conn[p] = "handshaking" /\ loop' = "accepting"
        /\ UNCHANGED <<backlog, client>>
    BY <1>4 DEF Accept!HandshakeDone, Accept!HandshakeFails
  <2>2. PICK what \in {"joined", "closed"} : Accept!Becomes(p, what)
    BY <1>4 DEF Accept!HandshakeDone, Accept!HandshakeFails, Accept!Joins
  <2>3. conn' \in [Peers -> {"none", "queued", "handshaking", "joined", "closed"}]
        /\ Handshaking' = Handshaking \ {p}
    BY <2>2, Becoming
  <2>4. p \in Handshaking
    BY <2>1 DEF Handshaking
  <2>5. Handshaking = {p}
    BY <2>4 DEF LoopInv
  <2> QED
    BY <2>1, <2>3, <2>5 DEF LoopInv
<1> QED
  BY <1>1, <1>2, <1>3, <1>4 DEF Accept!Loop

----------------------------------------------------------------------------
(* The inductive invariant.                                                *)

\* The inductive invariant holds at the start.
LEMMA InvInit == Init => IInv
<1> SUFFICES ASSUME Init PROVE IInv
  OBVIOUS
<1>1. StartInv
  BY StartInitial DEF Init
<1>2. LoopInv
  BY DEF Init, Accept!Init, LoopInv, Handshaking
<1> QED
  BY <1>1, <1>2 DEF IInv

\* Every step keeps it.
LEMMA InvNext == IInv /\ [Next]_vars => IInv'
<1> SUFFICES ASSUME IInv, [Next]_vars PROVE IInv'
  OBVIOUS
<1>1. StartInv /\ LoopInv
  BY DEF IInv
<1>2. UNCHANGED loopVars => LoopInv'
  BY <1>1 DEF loopVars, LoopInv, Handshaking
<1>3. UNCHANGED startVars => StartInv'
  <2> SUFFICES ASSUME UNCHANGED startVars PROVE StartInv'
    OBVIOUS
  <2>1. UNCHANGED <<file, folder, pos, dict, secure, bundle>>
    BY DEF startVars
  <2>2. stage' = stage
    BY DEF startVars
  <2>3. stage' = stage \/ (stage' = "returned" /\ stage = "serving")
    BY <2>2
  <2> QED
    BY <1>1, <2>1, <2>3, Served
<1>4. CASE Starting
  <2>1. StartInv'
    BY <1>1, <1>4, ReadStep, ConfigureStep, BundleStep, LoadStep
       DEF Starting, StartNext
  <2> QED
    BY <1>2, <1>4, <2>1 DEF Starting, IInv
<1>5. CASE Serving
  <2>1. LoopInv'
    BY <1>1, <1>5, ClientStep, LoopStep DEF Serving, Accept!Next
  <2> QED
    BY <1>3, <1>5, <2>1 DEF Serving, IInv
<1>6. CASE RunReturns
  <2>1. UNCHANGED loopVars /\ StartInv'
    BY <1>1, <1>6, Served DEF RunReturns, loopVars
  <2> QED
    BY <1>2, <2>1 DEF IInv
<1>7. CASE UNCHANGED vars
  BY <1>2, <1>3, <1>7 DEF vars, IInv
<1> QED
  BY <1>4, <1>5, <1>6, <1>7 DEF Next

\* The inductive invariant holds throughout.
THEOREM Invariant == Spec => []IInv
<1> QED
  BY InvInit, InvNext, PTL DEF Spec

----------------------------------------------------------------------------
(* The properties.                                                         *)

\* Every variable of the start and of the loop stays in its type, and the loop
\* waits for the TLS handshake of exactly one client, or of none.
THEOREM TypeCorrect == Spec => []TypeOK
<1>1. IInv => TypeOK
  <2> SUFFICES ASSUME IInv PROVE TypeOK
    OBVIOUS
  <2>1. StartTypeOK /\ LoopInv
    BY DEF IInv, StartInv
  <2>2. Cardinality(Handshaking) = IF loop = "handshaking" THEN 1 ELSE 0
    BY <2>1, FS_Singleton, FS_EmptySet DEF LoopInv
  <2>3. Accept!TypeOK
    <3>1. secure \in BOOLEAN
      BY <2>1 DEF StartTypeOK
    <3>2. Cardinality({p \in Peers : conn[p] = "handshaking"})
             = IF loop = "handshaking" THEN 1 ELSE 0
      BY <2>2 DEF Handshaking
    <3> QED
      BY <2>1, <3>1, <3>2, SMT DEF Accept!TypeOK, LoopInv, Accept!Cardinality, Cardinality
  <2> QED
    BY <2>1, <2>3 DEF TypeOK
<1> QED
  BY <1>1, Invariant, PTL

\* Of a file as the one that is shipped, every value is read for its own key,
\* whatever its keys, values and the order of its lines.
THEOREM PlainFilesAreRead == Spec => []PlainFileIsRead
<1>1. IInv => PlainFileIsRead
  <2> SUFFICES ASSUME IInv, Plain
               PROVE  /\ stage = "aborted" => pos > Len(file)
                      /\ pos > Len(file) => \A k \in KEYS : dict[k] # ""
                                                => Says(k, dict[k])
                      /\ pos > Len(file) => \A i \in DOMAIN file : Entry(file[i])
                             => \A k \in file[i][1].names :
                                   dict[k] = file[i][2].text
    BY DEF PlainFileIsRead
  <2>1. stage = "aborted" => pos > Len(file)
    BY DEF IInv, StartInv, ReadToTheEnd
  <2>2. ASSUME NEW k \in KEYS, dict[k] # ""
        PROVE  Says(k, dict[k])
    BY <2>2 DEF IInv, StartInv, DictFromFile, Entered, Says
  <2>3. ASSUME pos > Len(file), NEW i \in DOMAIN file
        PROVE  Read(i)
    <3>1. i \in 1 .. Len(file) /\ Len(file) \in Nat
      BY Lines DEF IInv, StartInv
    <3>2. pos \in Nat
      BY <3>1 DEF IInv, StartInv, StartTypeOK
    <3> QED
      BY <2>3, <3>1, <3>2 DEF Read
  <2> QED
    BY <2>1, <2>2, <2>3 DEF IInv, StartInv, DictFromFile
<1> QED
  BY <1>1, Invariant, PTL

\* Who asks for TLS gets a server whose certificate, key and root certificates
\* were all loaded; a server in plain text was asked for.
THEOREM ConfiguredServer == Spec => []ServesAsConfigured
<1>1. IInv => ServesAsConfigured
  <2> SUFFICES ASSUME IInv, stage = "serving"
               PROVE  IF secure
                      THEN /\ Pair(bundle) /\ bundle.root_CAs # {}
                           /\ Broken \notin bundle.root_CAs
                      ELSE Plain => \E name \in TcpNames :
                                       Says("connection type", name)
    BY DEF ServesAsConfigured
  <2>1. CASE secure
    BY <2>1 DEF IInv, StartInv, Checked
  <2>2. CASE ~secure /\ Plain
    <3>1. dict["connection type"] \in TcpNames /\ dict["connection type"] # ""
      BY <2>2 DEF IInv, StartInv, Checked, TcpNames
    <3>2. "connection type" \in KEYS
      BY DEF KEYS
    <3>3. Says("connection type", dict["connection type"])
      BY <2>2, <3>1, <3>2 DEF IInv, StartInv, DictFromFile, Entered, Says
    <3> QED
      BY <2>2, <3>1, <3>3
  <2> QED
    BY <2>1, <2>2
<1> QED
  BY <1>1, Invariant, PTL

=============================================================================
