------------------------------ MODULE Startup ------------------------------
(***************************************************************************)
(* The start of the server: main() reads the configuration file, for TLS   *)
(* looks for certificates and builds a context of them, and starts to      *)
(* serve.  Nothing runs beside it; what varies is what it finds.           *)
(*                                                                         *)
(* The file is searched line by line, it is not parsed as JSON.  A line is *)
(* the sequence of its pieces between colons; a piece has the keys that    *)
(* are spelled in it, quotes included (names), whether it begins and ends  *)
(* with a quote (field), and its text without quotes.                      *)
(***************************************************************************)
EXTENDS Naturals, Sequences, FiniteSets

CONSTANTS Files,       \* files that may be found: sequences of lines
          Folders,     \* what may be where the certificates should be
          PortTexts,   \* texts that begin with a number that fits a port
          Broken       \* a certificate or key that OpenSSL cannot read

VARIABLES
    file, folder,      \* what is on the disk
    stage,             \* what main() does next, or how it ended
    pos,               \* the line that build_json_dict() reads next
    dict,              \* json_dict; a key that is not in it has ""
    secure,            \* the connection type is TLS; FALSE until it is read
    bundle             \* the SecurityBundle, empty for TCP

startVars == <<file, folder, stage, pos, dict, secure, bundle>>

KEYS == {"path/to/certificates", "password", "client root CA subdir",
         "connection type", "port"}

Pieces == [names : SUBSET KEYS, field : BOOLEAN, text : STRING]

ASSUME FilesAssumption == \A f \in Files : f \in Seq(Seq(Pieces))

ASSUME FoldersAssumption == \A d \in Folders : IsFiniteSet(d.root_CAs)

TcpNames == {"tcp", "TCP"}                 \* the comparison is in lower case
SslNames == {"ssl", "SSL", "tls", "TLS"}

NoBundle == [public_key |-> {}, private_key |-> {}, root_CAs |-> {}]

StartInit ==
    /\ file \in Files /\ folder \in Folders
    /\ stage = "reading" /\ pos = 1
    /\ dict = [k \in KEYS |-> ""]
    /\ secure = FALSE
    /\ bundle = NoBundle

----------------------------------------------------------------------------
(* build_json_dict                                                         *)

Mentions(line, k) == \E i \in DOMAIN line : k \in line[i].names

\* Mutant: the piece before the first colon is not dropped.
Fields_WithKey(line) == {i \in DOMAIN line : line[i].field}

\* Where the fields behind the first colon are.
Fields(line) == {i \in 2 .. Len(line) : line[i].field}

First(line) == line[CHOOSE i \in Fields(line) : \A j \in Fields(line) : i <= j]

\* Keys that the line mentions, if it has a colon at all, and that have no
\* value yet.
Wanted(line) == {k \in KEYS : Len(line) > 1 /\ Mentions(line, k) /\ dict[k] = ""}

\* All of them get the first field behind a colon; an empty one is not kept.
\* Where there is no field, front() of an empty view is undefined: a build
\* with assertions aborts, another one finds an empty text.
ReadsLine ==
    /\ stage = "reading" /\ pos <= Len(file)
    /\ LET line == file[pos] IN
       \/ /\ Wanted(line) # {} /\ Fields(line) = {}
          /\ stage' = "aborted"
          /\ UNCHANGED <<pos, dict>>
       \/ /\ dict' = [k \in KEYS |-> IF k \in Wanted(line) /\ Fields(line) # {}
                                     THEN First(line).text ELSE dict[k]]
          /\ pos' = pos + 1
          /\ UNCHANGED stage
    /\ UNCHANGED <<file, folder, secure, bundle>>

----------------------------------------------------------------------------
(* build_network_config                                                    *)

Valid == /\ \A k \in KEYS : dict[k] # ""
         /\ dict["port"] \in PortTexts
         /\ dict["connection type"] \in TcpNames \cup SslNames

\* Mutant: only the name "ssl" selects TLS, its alias falls through.
AsksForTls_NoAlias(name) == name \in {"ssl", "SSL"}

AsksForTls(name) == name \notin TcpNames

Configures ==
    /\ stage = "reading" /\ pos > Len(file)
    /\ IF Valid
       THEN /\ secure' = AsksForTls(dict["connection type"])
            /\ stage' = IF secure' THEN "bundling" ELSE "starting"
       ELSE stage' = "failed" /\ UNCHANGED secure
    /\ UNCHANGED <<file, folder, pos, dict, bundle>>

----------------------------------------------------------------------------
(* build_security_bundle and create_ssl_context                            *)

Found == IF folder.path = dict["path/to/certificates"] THEN folder.kind ELSE "missing"

Complete == /\ folder.certs # {} /\ folder.keys # {}
            /\ folder.subdir = dict["client root CA subdir"] /\ folder.root_CAs # {}

\* The last key and certificate of the directory are taken, in an order that
\* is not specified.  Iterating over what is not a directory throws, outside
\* of the try block of main().
Bundles ==
    /\ stage = "bundling"
    /\ \/ Found = "missing" /\ stage' = "failed" /\ UNCHANGED bundle
       \/ Found = "file" /\ stage' = "aborted" /\ UNCHANGED bundle
       \/ Found = "directory" /\ ~Complete /\ stage' = "failed" /\ UNCHANGED bundle
       \/ /\ Found = "directory" /\ Complete
          /\ \E c \in folder.certs, k \in folder.keys :
                bundle' = [public_key |-> {c}, private_key |-> {k},
                           root_CAs |-> folder.root_CAs]
          /\ stage' = "loading"
    /\ UNCHANGED <<file, folder, pos, dict, secure>>

\* A certificate and the key that belongs to it have the same name.
Pair(b) == b.public_key = b.private_key /\ Broken \notin b.public_key

\* Mutant: a root certificate that cannot be loaded is passed over.
Loads_SkippingCAs ==
    /\ stage = "loading"
    /\ stage' = IF Pair(bundle) THEN "starting" ELSE "aborted"
    /\ UNCHANGED <<file, folder, pos, dict, secure, bundle>>

\* Only load_verify_file() is called inside a try block.
Loads ==
    /\ stage = "loading"
    /\ stage' = IF ~Pair(bundle) THEN "aborted"
                ELSE IF Broken \in bundle.root_CAs THEN "failed" ELSE "starting"
    /\ UNCHANGED <<file, folder, pos, dict, secure, bundle>>

----------------------------------------------------------------------------
(* The server object binds the port, which may throw; main() prints that   *)
(* and returns 0.                                                          *)

Starts ==
    /\ stage = "starting"
    /\ stage' \in {"serving", "returned"}
    /\ UNCHANGED <<file, folder, pos, dict, secure, bundle>>

StartNext == ReadsLine \/ Configures \/ Bundles \/ Loads \/ Starts

----------------------------------------------------------------------------
(* Properties.                                                             *)

StartTypeOK ==
    /\ stage \in {"reading", "bundling", "loading", "starting", "serving",
                  "failed", "aborted", "returned"}
    /\ pos \in 1..(Len(file) + 1)
    /\ DOMAIN dict = KEYS
    /\ secure \in BOOLEAN
    /\ \A kind \in DOMAIN NoBundle : IsFiniteSet(bundle[kind])

\* A file as the one that comes with the server: one quoted key and one quoted
\* value without a colon to a line, no key twice, no value that is a key.
Entry(line) == /\ Len(line) = 2 /\ line[1].field /\ line[2].field
               /\ Cardinality(line[1].names) = 1 /\ line[2].names = {}

Plain == /\ \A i \in DOMAIN file : Len(file[i]) > 1 => Entry(file[i])
         /\ \A i, j \in DOMAIN file : Entry(file[i]) /\ Entry(file[j]) /\ i # j
                                         => file[i][1].names # file[j][1].names

Says(k, text) == \E i \in DOMAIN file :
                    Entry(file[i]) /\ file[i][1].names = {k} /\ file[i][2].text = text

\* json_loader.cpp:68: of a plain file every value is read, each for its own
\* key, and reading it aborts nothing.
PlainFileIsRead ==
    Plain => /\ stage = "aborted" => pos > Len(file)
             /\ pos > Len(file) => \A k \in KEYS : dict[k] # ""
                                        => Says(k, dict[k])
             /\ pos > Len(file) => \A i \in DOMAIN file : Entry(file[i])
                                        => \A k \in file[i][1].names :
                                              dict[k] = file[i][2].text

\* network_config.hpp:73 "tls being an alias", main.cpp:45: who asks for TLS, by
\* either name, gets a server with a certificate, its key and root certificates
\* for the clients, all of which were loaded; only who asks for TCP gets a
\* server that talks in plain text.
ServesAsConfigured ==
    stage = "serving" =>
        IF secure
        THEN Pair(bundle) /\ bundle.root_CAs # {} /\ Broken \notin bundle.root_CAs
        ELSE Plain => \E name \in TcpNames : Says("connection type", name)
=============================================================================
