--------------------------- MODULE ClientSettings ---------------------------
(***************************************************************************)
(* The settings of the Qt client over its runs: the file they are kept in, *)
(* the main window, which loads them when it is constructed and saves them *)
(* when the settings dialog is accepted, and the presenter that is made    *)
(* for them.  The certificates dialog, which is opened with a presenter    *)
(* for TLS, is CertificatesDialog.                                         *)
(*                                                                         *)
(* Saving opens the file, which empties it, and writes it when the QFile   *)
(* is destroyed; whether either succeeds is not looked at.  The process    *)
(* may end at any time, between the two as well.                           *)
(*                                                                         *)
(* A value of the file is a set: empty if the key is missing or its value  *)
(* has another type.  The texts that are only stored and shown (host,      *)
(* password) are one value, login.                                         *)
(***************************************************************************)
EXTENDS CertificatesDialog, Integers

CONSTANTS CharBound,   \* 2^32: m_max_char is less
          PortBound,   \* 2^16: m_port is less
          Default,     \* the settings of the member initialisers
          Choices,     \* what a user may leave in the settings dialog
          Files        \* what may be on the disk before the first run

\* An int has room for a port; the numbers of a file are ints, those of the
\* dialog are texts of digits.
ASSUME SettingsAssumption ==
    /\ CharBound \in Nat /\ CharBound % 2 = 0
    /\ PortBound \in Nat \ {0} /\ 2 * PortBound <= CharBound
    /\ Default \in [mode : {"Tcp", "Ssl"}, port : 0 .. PortBound - 1,
                    max_char : 0 .. CharBound - 1, broadcast : BOOLEAN,
                    login : {Default.login}, certs_dir : {Default.certs_dir}]
    /\ \A d \in Choices :
          /\ d.mode \in {"Tcp", "Ssl"} /\ d.broadcast \in BOOLEAN
          /\ d.port \subseteq Nat /\ d.max_char \subseteq 0 .. CharBound - 1
    /\ \A file \in Files :
          /\ file.json.port \subseteq Int /\ file.json.max_char \subseteq Int
          /\ file.json.broadcast \subseteq BOOLEAN

VARIABLES
    disk,        \* the file: its kind, and for an object its values
    config,      \* the settings of the main window
    presenter,   \* the settings its presenter was made with, or NoPresenter
    phase,       \* where the process is, "off" if it does not run
    first,       \* history: the settings of the first file, if it has any
    last,        \* history: the settings asked for last
    lost         \* history: whether a read or a write of the file failed

settingsVars == <<disk, config, presenter, phase, first, last, lost>>
vars == <<settingsVars, certVars>>

----------------------------------------------------------------------------
(* Conversions.                                                            *)

ValueIn(values, other) == IF values = {} THEN other ELSE CHOOSE v \in values : TRUE

\* QJsonValue::toInt(): 0 for what is no int.
Half == CharBound \div 2
ToInt(values) == LET n == ValueIn(values, 0)
                 IN  IF n >= -Half /\ n < Half THEN n ELSE 0

\* static_cast between int and uint32_t.
Signed(u) == IF u < Half THEN u ELSE u - CharBound
Unsigned_Uncast(i) == i      \* Mutant: the number is kept as it is.
Unsigned(i) == IF i < 0 THEN i + CharBound ELSE i

\* try_get_connect_mode_from_view(), and connect_mode_to_qstring().
ModeOf(text) == IF text \in {"ssl", "SSL", "tls", "TLS"} THEN "Ssl" ELSE "Tcp"
ModeText(mode) == IF mode = "Ssl" THEN "ssl" ELSE "tcp"

\* What the window takes from an object: a key that is missing is not the
\* default, it is nothing.
FromJson(json) ==
    [mode      |-> ModeOf(ValueIn(json.mode, "")),
     port      |-> ToInt(json.port) % PortBound,
     max_char  |-> Unsigned(ToInt(json.max_char)),
     broadcast |-> ValueIn(json.broadcast, FALSE),
     login     |-> ValueIn(json.login, ""),
     certs_dir |-> ValueIn(json.certs_dir, "")]

\* Mutant: the number is saved as it is.
ToJson_Uncast(c) ==
    [mode |-> {ModeText(c.mode)}, port |-> {c.port}, max_char |-> {c.max_char},
     broadcast |-> {c.broadcast}, login |-> {c.login}, certs_dir |-> {c.certs_dir}]

ToJson(c) ==
    [mode |-> {ModeText(c.mode)}, port |-> {c.port},
     max_char |-> {Signed(c.max_char)}, broadcast |-> {c.broadcast},
     login |-> {c.login}, certs_dir |-> {c.certs_dir}]

NoJson == [mode |-> {}, port |-> {}, max_char |-> {}, broadcast |-> {},
           login |-> {}, certs_dir |-> {}]
Unreadable == [kind |-> "broken", json |-> NoJson]
Object(json) == [kind |-> "object", json |-> json]

\* Mutant: what cannot be parsed is taken for an empty object.
Loads_Unparsed(file) == file.kind # "absent"

\* load_json_from_file() has a value.
Loads(file) == file.kind = "object"

\* The settings dialog: what it shows, and what its getters make of what was
\* left in it.  The port and the limit are texts; one that is no number is 0.
Shown(c) == [mode |-> c.mode, port |-> {c.port}, max_char |-> {c.max_char},
             broadcast |-> c.broadcast, login |-> c.login]
Chosen(d, dir) == [mode |-> d.mode, port |-> ValueIn(d.port, 0) % PortBound,
                   max_char |-> ValueIn(d.max_char, 0), broadcast |-> d.broadcast,
                   login |-> d.login, certs_dir |-> dir]

NoPresenter == [mode |-> "none", port |-> 0, broadcast |-> FALSE]
PresenterFor(c) == [mode |-> c.mode, port |-> c.port, broadcast |-> c.broadcast]

----------------------------------------------------------------------------
FirstSettings(file) == IF Loads(file) THEN FromJson(file.json) ELSE Default

Init ==
    /\ DialogInit
    /\ disk \in Files
    /\ config = Default
    /\ presenter = NoPresenter
    /\ phase = "off"
    /\ first = FirstSettings(disk)
    /\ last = first
    /\ lost = FALSE

\* save_config(): the file is emptied, or cannot be opened and stays.
Saves(writing, saved) ==
    \/ disk' = Unreadable /\ phase' = writing /\ UNCHANGED lost
    \/ UNCHANGED disk /\ phase' = saved /\ lost' = TRUE

\* The bytes are written, or they are not.
Writes ==
    /\ phase \in {"writing default", "writing"}
    /\ phase' = IF phase = "writing" THEN "applying" ELSE "asking"
    /\ \/ disk' = Object(ToJson(config)) /\ UNCHANGED lost
       \/ UNCHANGED disk /\ lost' = TRUE
    /\ UNCHANGED <<config, presenter, first, last, certVars>>

\* The window is constructed ...
Starts ==
    /\ phase = "off" /\ Loads(disk)
    /\ config' = FromJson(disk.json)
    /\ phase' = "asking"
    /\ UNCHANGED <<disk, presenter, first, last, lost, certVars>>

\* ... or finds no settings, and saves its defaults over what there is.
StartsWithout ==
    /\ phase = "off" /\ ~Loads(disk)
    /\ Saves("writing default", "asking")
    /\ UNCHANGED <<config, presenter, first, last, certVars>>

\* A file that cannot be opened for once is replaced like one that is no good.
StartsUnread ==
    /\ phase = "off" /\ Loads(disk)
    /\ lost' = TRUE
    /\ \/ disk' = Unreadable /\ phase' = "writing default"
       \/ UNCHANGED disk /\ phase' = "asking"
    /\ UNCHANGED <<config, presenter, first, last, certVars>>

\* on_actionEdit_Server_triggered(), which also ends the constructor.
Asking == phase \in {"asking", "running"} /\ ~open

\* Mutant: accepted settings are used, but only saved when the window closes.
AcceptsSettings_Unsaved(d) ==
    /\ Asking
    /\ config' = Chosen(d, config.certs_dir) /\ last' = config'
    /\ phase' = "applying"
    /\ UNCHANGED <<disk, lost, first, presenter, certVars>>

AcceptsSettings(d) ==
    /\ Asking
    /\ config' = Chosen(d, config.certs_dir) /\ last' = config'
    /\ Saves("writing", "applying")
    /\ UNCHANGED <<first, presenter, certVars>>

\* set_connection_mode() and set_port(), accepted or not: a new presenter, and
\* for TLS the certificates dialog.
SetsConnectionMode ==
    /\ phase = "applying" \/ Asking
    /\ EditsServer(config.mode = "Ssl")
    /\ presenter' = PresenterFor(config)
    /\ phase' = "running"
    /\ UNCHANGED <<disk, config, first, last, lost>>

UsesCertificates == phase = "running" /\ DialogStep /\ UNCHANGED settingsVars

\* The process ends, in order or not: only the file remains.
Ends ==
    /\ phase # "off"
    /\ phase' = "off" /\ config' = Default /\ presenter' = NoPresenter
    /\ m_keys_and_certificates' = Empty /\ m_ssl' = FALSE /\ layer' = Empty
    /\ open' = FALSE /\ m_security_bundle' = Empty /\ m_has' = Nothing /\ ok' = FALSE
    /\ lost' = (lost \/ phase \in {"writing default", "writing"})
    /\ UNCHANGED <<disk, first, last>>

Next == \/ Starts \/ StartsWithout \/ StartsUnread \/ Writes
        \/ \E d \in Choices \cup {Shown(config)} : AcceptsSettings(d)
        \/ SetsConnectionMode \/ UsesCertificates \/ Ends

Spec == Init /\ [][Next]_vars

----------------------------------------------------------------------------
(* Properties.                                                             *)

Logins == {d.login : d \in Choices} \cup {Default.login, first.login}
CertsDirs == {Default.certs_dir, first.certs_dir}
Settings == [mode : {"Tcp", "Ssl"}, port : 0 .. PortBound - 1,
             max_char : 0 .. CharBound - 1, broadcast : BOOLEAN,
             login : Logins, certs_dir : CertsDirs]

\* Type invariant; nothing is open or configured before the first presenter.
TypeOK ==
    /\ DialogTypeOK
    /\ disk \in Files \/ disk = Unreadable \/ disk = Object(ToJson(FromJson(disk.json)))
    /\ config \in Settings /\ first \in Settings /\ last \in Settings
    /\ presenter \in {NoPresenter} \cup
          [mode : {"Tcp", "Ssl"}, port : 0 .. PortBound - 1, broadcast : BOOLEAN]
    /\ phase \in {"off", "writing default", "asking", "writing", "applying", "running"}
    /\ lost \in BOOLEAN
    /\ presenter = NoPresenter => ~m_ssl /\ ~open

\* mainwindow.cpp:43: the settings of a window are ones that somebody asked for
\* together, the user, the first file or the program's defaults, however often
\* the process ended half way through a save and whatever failed; the window
\* never comes up with a mixture, or with the zeros and empty texts of a file
\* that is no good.
Asked == {Default, first} \cup {Chosen(d, dir) : d \in Choices, dir \in CertsDirs}
SettingsAreWhole == phase # "off" => config \in Asked

\* As long as the file can be read and written, the settings asked for last
\* are those of every later run, and the presenter and its TLS layer are made
\* for them: what is saved is read back as it was, at the limits of its type too.
SettingsPersist ==
    /\ phase # "off" /\ ~lost => config = last
    /\ phase = "running" => /\ presenter = PresenterFor(config)
                            /\ m_ssl = (config.mode = "Ssl")
=============================================================================
